---- MODULE Spec2Model ----
(***************************************************************************)
(* WordArena: the match engine (GameService), the win lock of the Redis    *)
(* store, the socket handlers for guesses and forfeits, the bot timer, and *)
(* the rating update at the end of a match.                                *)
(*                                                                         *)
(* One step of a handler is one operation on the shared store (or on the   *)
(* database) together with the synchronous code that follows it up to the  *)
(* next await; handlers of different connections interleave between steps. *)
(***************************************************************************)
EXTENDS Integers, Sequences, FiniteSets, TLC

VARIABLES
    store,          \* redis value under game:<GameId>: the stored match
    winLock,        \* redis value under game:<GameId>:winner: <<>> or <<[playerId, timestamp]>>
    now,            \* Date.now()
    h,              \* per connection identity: the handler in flight and its locals
    emitted,        \* the events the last step emitted to sockets, in order
    userElo,        \* persistent store: users.elo
    timers,         \* pending setTimeout callbacks of triggerBotGuess
    activeGames,    \* the activeGames map: is GameId a key of it
    playerSockets,  \* playerId -> socketId
    socketPlayers,  \* socketId -> playerId
    ops,            \* events handled so far
    oks,            \* per player: processGuess calls that returned success
    winners,        \* history: the player ids the stored match has had as winner
    lockLog,        \* history: the direct calls of acquireWinLock and the expiries of its key
    conn,           \* per socket id: the connection and the fields the handlers set on it
    grace,          \* per socket id: its disconnect handler and the grace timer it set
    queue,          \* redis sorted set matchmaking:queue: its members
    playerKey,      \* redis values under matchmaking:player:<playerId>
    searches,       \* MatchmakingService.activeSearches
    attempts,       \* the calls awaiting a command of the queue, in the order of their commands
    retry,          \* per player: the times at which pending scheduleMatchAttempt timers were set
    started,        \* history: the calls of startGame, in order
    phase,          \* history: per player, how the search the player last started has gone
    pure,           \* the arguments and the result of a function applied on its own
    db              \* persistent store: the counters of the users rows and the matches rows

sessionVars == <<conn, grace>>
queueVars == <<queue, playerKey, searches, attempts, retry, started, phase>>
farButDb == <<sessionVars, queueVars, pure>>
farVars == <<farButDb, db>>

vars == <<store, winLock, now, h, emitted, userElo, timers, activeGames,
          playerSockets, socketPlayers, ops, oks, winners, lockLog, farVars>>

-----------------------------------------------------------------------------
(* Bounds of the model *)

MaxOps == 3         \* events handled per run (guess, forfeit, bot timer) under Spec
MaxInputOps == 2    \* the same under SpecInput
MaxLockCalls == 4   \* calls of acquireWinLock and expiries of its key under SpecLock

-----------------------------------------------------------------------------
(* Identities *)

NULL == "null"
NoTime == -1        \* endTime: null

P1 == "p1"
P2 == "p2"
P3 == "p3"          \* a registered user who is not in the match
Players == {P1, P2}
Users == {P1, P2, P3}
PlayerOrder == <<P1, P2>>       \* Object.keys(game.players): insertion order
GameId == "g1"
NoGame == "g0"      \* an id under which the store holds nothing
GameIds == {GameId, NoGame}
Sockets == {"s1", "s2", "s3"}
SocketOrder == <<"s1", "s2", "s3">>
SocketOf(u) == CASE u = P1 -> "s1" [] u = P2 -> "s2" [] OTHER -> "s3"

\* Object.keys(game.players).find(id => id !== playerId)
OpponentId(playerId) == IF PlayerOrder[1] # playerId THEN PlayerOrder[1] ELSE PlayerOrder[2]

-----------------------------------------------------------------------------
(* WordService *)

Space == " "
ToUpperChar(c) ==
    CASE c = "c" -> "C" [] c = "r" -> "R" [] c = "a" -> "A" [] c = "n" -> "N"
      [] c = "e" -> "E" [] c = "s" -> "S" [] c = "l" -> "L" [] c = "t" -> "T"
      [] OTHER -> c

toUpperCase(w) == [i \in 1..Len(w) |-> ToUpperChar(w[i])]

RECURSIVE TrimLeft(_)
TrimLeft(w) == IF w # <<>> /\ Head(w) = Space THEN TrimLeft(Tail(w)) ELSE w

RECURSIVE TrimRight(_)
TrimRight(w) ==
    IF w # <<>> /\ w[Len(w)] = Space THEN TrimRight(SubSeq(w, 1, Len(w) - 1)) ELSE w

trim(w) == TrimRight(TrimLeft(w))

CRANE == <<"C", "R", "A", "N", "E">>
SLATE == <<"S", "L", "A", "T", "E">>
EERIE == <<"E", "E", "R", "I", "E">>
PLATE == <<"P", "L", "A", "T", "E">>

\* WordService.answers and WordService.validGuesses, cut down to a few words
Answers == {CRANE, SLATE}
ValidGuesses == {CRANE, SLATE, EERIE, PLATE}

isValidGuess(word) == toUpperCase(word) \in ValidGuesses

isCorrectGuess(guess, target) == toUpperCase(guess) = toUpperCase(target)

\* first pass of evaluateGuess: exact matches
GreenAt(g, t) == [i \in 1..5 |-> g[i] = t[i]]

\* second pass of evaluateGuess: positions i..5 in order, matched = consumed target positions
RECURSIVE SecondPass(_, _, _, _, _)
SecondPass(i, g, t, matched, result) ==
    IF i > 5 THEN result
    ELSE IF result[i] # NULL THEN SecondPass(i + 1, g, t, matched, result)
    ELSE LET js == {j \in 1..5 : ~matched[j] /\ g[i] = t[j]}
         IN IF js # {}
            THEN LET j == CHOOSE x \in js : \A y \in js : x <= y
                 IN SecondPass(i + 1, g, t, [matched EXCEPT ![j] = TRUE],
                               [result EXCEPT ![i] = "yellow"])
            ELSE SecondPass(i + 1, g, t, matched, [result EXCEPT ![i] = "grey"])

\* evaluateGuess without the bookkeeping of matched target positions: a letter that occurs
\* anywhere in the target is yellow
evaluateGuess_noConsume(guess, target) ==
    LET g == toUpperCase(guess)
        t == toUpperCase(target)
    IN [i \in 1..5 |-> [letter |-> g[i],
                        color |-> IF g[i] = t[i] THEN "green"
                                  ELSE IF \E j \in 1..5 : g[i] = t[j] THEN "yellow"
                                  ELSE "grey"]]

\* evaluateGuess in one pass: greens are not marked before the yellows are looked for
evaluateGuess_onePass(guess, target) ==
    LET g == toUpperCase(guess)
        t == toUpperCase(target)
        colors == SecondPass(1, g, t, [i \in 1..5 |-> FALSE],
                             [i \in 1..5 |-> IF GreenAt(g, t)[i] THEN "green" ELSE NULL])
    IN [i \in 1..5 |-> [letter |-> g[i], color |-> colors[i]]]

evaluateGuess(guess, target) ==
    LET g == toUpperCase(guess)
        t == toUpperCase(target)
        colors == SecondPass(1, g, t, GreenAt(g, t),
                             [i \in 1..5 |-> IF GreenAt(g, t)[i] THEN "green" ELSE NULL])
    IN [i \in 1..5 |-> [letter |-> g[i], color |-> colors[i]]]

-----------------------------------------------------------------------------
(* GameService *)

MAX_GUESSES == 6
ACTIVE == "active"
FINISHED == "finished"

\* getGameState: the value under game:<gameId>, or null
getGame(gameId) == IF gameId = GameId THEN <<store>> ELSE <<>>

guessRecord(guess, target, timestamp, guessNumber) ==
    [word |-> guess,
     evaluation |-> evaluateGuess(guess, target),
     timestamp |-> timestamp,
     guessNumber |-> guessNumber]

\* player.guesses.push(guessRecord); game.replayLog.push({playerId, type: 'guess', data})
pushGuess(game, playerId, rec) ==
    [game EXCEPT !.players[playerId].guesses = Append(@, rec),
                 !.replayLog = Append(@, [playerId |-> playerId, type |-> "guess", data |-> rec])]

allPlayersExhausted(game) ==
    \A p \in DOMAIN game.players : Len(game.players[p].guesses) >= MAX_GUESSES

\* processGuess without its check of the remaining guesses
guessError_noLimit(found, playerId, raw) ==
    LET guess == trim(toUpperCase(raw))
    IN IF found = <<>> THEN "Game not found"
       ELSE IF found[1].status # ACTIVE THEN "Game is not active"
       ELSE IF playerId \notin DOMAIN found[1].players THEN "Player not in game"
       ELSE IF Len(guess) # 5 THEN "Guess must be 5 letters"
       ELSE IF ~isValidGuess(guess) THEN "Not a valid word"
       ELSE NULL

\* the validation of processGuess: the error it returns, or NULL when the guess is accepted
guessError(found, playerId, raw) ==
    LET guess == trim(toUpperCase(raw))
    IN IF found = <<>> THEN "Game not found"
       ELSE IF found[1].status # ACTIVE THEN "Game is not active"
       ELSE IF playerId \notin DOMAIN found[1].players THEN "Player not in game"
       ELSE IF Len(guess) # 5 THEN "Guess must be 5 letters"
       ELSE IF ~isValidGuess(guess) THEN "Not a valid word"
       ELSE IF Len(found[1].players[playerId].guesses) >= MAX_GUESSES THEN "No guesses remaining"
       ELSE NULL

\* "Check for loss": applied when the guess did not end the game
checkExhausted(game, gameEnded, timestamp) ==
    IF ~gameEnded /\ allPlayersExhausted(game)
    THEN [game EXCEPT !.status = FINISHED, !.winner = NULL, !.endTime = timestamp]
    ELSE game

endedAfterCheck(game, gameEnded) == gameEnded \/ allPlayersExhausted(game)

\* the branch of processGuess taken when acquireWinLock returned true
wonLockUpdate(game, playerId, timestamp) ==
    [game EXCEPT !.status = FINISHED, !.winner = playerId, !.endTime = timestamp]

\* the branch taken when getWinner returned an existing winner
adoptWinner(game, existingWinner) ==
    [game EXCEPT !.status = FINISHED, !.winner = existingWinner.playerId,
                 !.endTime = existingWinner.timestamp]

\* forfeitGame that names the forfeiting player as winner
forfeited_self(game, forfeitPlayerId, endTime) ==
    [game EXCEPT !.status = FINISHED,
                 !.winner = forfeitPlayerId,
                 !.endTime = endTime,
                 !.replayLog = Append(@, [playerId |-> forfeitPlayerId, type |-> "forfeit",
                                          timestamp |-> endTime])]

\* forfeitGame: the state it writes for the game it loaded
forfeited(game, forfeitPlayerId, endTime) ==
    [game EXCEPT !.status = FINISHED,
                 !.winner = OpponentId(forfeitPlayerId),
                 !.endTime = endTime,
                 !.replayLog = Append(@, [playerId |-> forfeitPlayerId, type |-> "forfeit",
                                          timestamp |-> endTime])]

-----------------------------------------------------------------------------
(* EloService *)

K_FACTOR == 32
MIN_RATING == 100

\* 1 / (1 + 10^(d / 400)) in millionths, rounded, for d = -800, -799, ..., 800: no product
\* of 16 or 32 with one of the values lies within a ten-thousandth of a half, so that
\* Math.round gives the same integer for the value in millionths as for the double
ExpectedScores == <<
    990099, 990042, 989986, 989928, 989871, 989813, 989755, 989696, 989637, 989578, 989518, 989459,
    989398, 989338, 989277, 989216, 989154, 989092, 989030, 988967, 988904, 988841, 988777, 988713,
    988649, 988584, 988519, 988453, 988387, 988321, 988255, 988188, 988120, 988052, 987984, 987916,
    987847, 987778, 987708, 987638, 987567, 987496, 987425, 987353, 987281, 987209, 987136, 987063,
    986989, 986915, 986840, 986765, 986690, 986614, 986538, 986461, 986384, 986307, 986229, 986150,
    986071, 985992, 985912, 985832, 985752, 985670, 985589, 985507, 985425, 985342, 985258, 985174,
    985090, 985005, 984920, 984834, 984748, 984661, 984574, 984487, 984398, 984310, 984221, 984131,
    984041, 983950, 983859, 983767, 983675, 983582, 983489, 983395, 983301, 983206, 983111, 983015,
    982919, 982822, 982724, 982626, 982528, 982429, 982329, 982229, 982128, 982027, 981925, 981823,
    981720, 981616, 981512, 981407, 981302, 981196, 981089, 980982, 980874, 980766, 980657, 980548,
    980438, 980327, 980216, 980104, 979991, 979878, 979764, 979650, 979535, 979419, 979303, 979186,
    979068, 978950, 978831, 978711, 978591, 978470, 978348, 978226, 978103, 977979, 977855, 977730,
    977604, 977478, 977351, 977223, 977095, 976965, 976836, 976705, 976574, 976442, 976309, 976175,
    976041, 975906, 975770, 975634, 975497, 975359, 975220, 975080, 974940, 974799, 974657, 974515,
    974371, 974227, 974082, 973937, 973790, 973643, 973495, 973346, 973196, 973045, 972894, 972742,
    972589, 972435, 972280, 972125, 971968, 971811, 971653, 971494, 971334, 971173, 971012, 970849,
    970686, 970522, 970356, 970190, 970023, 969856, 969687, 969517, 969347, 969175, 969003, 968829,
    968655, 968480, 968303, 968126, 967948, 967769, 967589, 967408, 967226, 967043, 966859, 966674,
    966488, 966301, 966113, 965924, 965734, 965543, 965351, 965158, 964964, 964769, 964573, 964376,
    964177, 963978, 963778, 963576, 963374, 963170, 962965, 962759, 962552, 962344, 962135, 961925,
    961713, 961501, 961287, 961073, 960857, 960640, 960421, 960202, 959981, 959760, 959537, 959313,
    959087, 958861, 958633, 958404, 958174, 957943, 957710, 957477, 957242, 957005, 956768, 956529,
    956289, 956048, 955805, 955562, 955316, 955070, 954822, 954573, 954323, 954072, 953819, 953565,
    953309, 953052, 952794, 952534, 952273, 952011, 951747, 951482, 951216, 950948, 950679, 950408,
    950136, 949863, 949588, 949312, 949034, 948755, 948474, 948192, 947909, 947624, 947337, 947049,
    946760, 946469, 946176, 945883, 945587, 945290, 944992, 944692, 944390, 944087, 943782, 943476,
    943168, 942859, 942548, 942236, 941922, 941606, 941289, 940970, 940649, 940327, 940003, 939678,
    939350, 939022, 938691, 938359, 938025, 937690, 937353, 937014, 936673, 936331, 935987, 935641,
    935293, 934944, 934593, 934240, 933886, 933530, 933172, 932812, 932450, 932086, 931721, 931354,
    930985, 930614, 930242, 929867, 929491, 929113, 928733, 928351, 927967, 927581, 927193, 926804,
    926412, 926019, 925624, 925226, 924827, 924426, 924023, 923618, 923211, 922802, 922391, 921977,
    921562, 921145, 920726, 920305, 919882, 919456, 919029, 918600, 918168, 917735, 917299, 916861,
    916421, 915979, 915535, 915089, 914641, 914190, 913738, 913283, 912826, 912367, 911905, 911442,
    910976, 910508, 910038, 909566, 909091, 908614, 908135, 907654, 907170, 906684, 906196, 905705,
    905213, 904718, 904220, 903720, 903218, 902714, 902207, 901698, 901187, 900673, 900157, 899638,
    899117, 898594, 898068, 897540, 897010, 896477, 895941, 895403, 894863, 894320, 893775, 893227,
    892677, 892124, 891569, 891011, 890451, 889888, 889323, 888755, 888184, 887611, 887036, 886458,
    885877, 885294, 884708, 884119, 883528, 882935, 882338, 881739, 881138, 880534, 879927, 879317,
    878705, 878090, 877473, 876852, 876229, 875604, 874975, 874344, 873710, 873074, 872435, 871793,
    871148, 870500, 869850, 869197, 868541, 867882, 867221, 866557, 865890, 865220, 864547, 863871,
    863193, 862512, 861828, 861141, 860451, 859759, 859063, 858365, 857663, 856959, 856252, 855542,
    854829, 854113, 853395, 852673, 851948, 851221, 850490, 849757, 849020, 848281, 847539, 846793,
    846045, 845294, 844540, 843782, 843022, 842259, 841492, 840723, 839951, 839175, 838397, 837615,
    836831, 836043, 835253, 834459, 833662, 832863, 832060, 831254, 830445, 829633, 828818, 827999,
    827178, 826354, 825526, 824695, 823862, 823025, 822185, 821341, 820495, 819646, 818793, 817938,
    817079, 816217, 815352, 814484, 813612, 812738, 811860, 810979, 810095, 809208, 808318, 807424,
    806528, 805628, 804725, 803819, 802909, 801997, 801081, 800162, 799240, 798315, 797386, 796455,
    795520, 794582, 793641, 792696, 791749, 790798, 789844, 788887, 787927, 786963, 785997, 785027,
    784054, 783077, 782098, 781115, 780130, 779141, 778148, 777153, 776155, 775153, 774148, 773140,
    772129, 771114, 770097, 769076, 768052, 767025, 765995, 764961, 763925, 762885, 761842, 760796,
    759747, 758695, 757639, 756581, 755519, 754454, 753386, 752315, 751241, 750163, 749083, 748000,
    746913, 745823, 744730, 743635, 742536, 741434, 740328, 739220, 738109, 736995, 735877, 734757,
    733634, 732507, 731378, 730245, 729110, 727972, 726830, 725686, 724538, 723388, 722235, 721078,
    719919, 718757, 717592, 716424, 715253, 714079, 712902, 711723, 710540, 709355, 708166, 706975,
    705781, 704585, 703385, 702183, 700977, 699769, 698559, 697345, 696129, 694910, 693688, 692463,
    691236, 690006, 688774, 687538, 686300, 685060, 683816, 682570, 681322, 680071, 678817, 677561,
    676302, 675040, 673776, 672510, 671241, 669969, 668695, 667418, 666139, 664858, 663574, 662288,
    660999, 659708, 658415, 657119, 655821, 654520, 653217, 651912, 650605, 649295, 647983, 646669,
    645352, 644034, 642713, 641390, 640065, 638738, 637408, 636077, 634743, 633408, 632070, 630730,
    629389, 628045, 626699, 625351, 624002, 622650, 621297, 619941, 618584, 617225, 615864, 614501,
    613137, 611771, 610402, 609033, 607661, 606288, 604913, 603536, 602158, 600778, 599397, 598014,
    596629, 595243, 593855, 592466, 591076, 589684, 588290, 586895, 585499, 584101, 582702, 581301,
    579900, 578497, 577092, 575687, 574280, 572872, 571463, 570053, 568641, 567229, 565815, 564400,
    562985, 561568, 560150, 558731, 557312, 555891, 554469, 553047, 551624, 550199, 548774, 547349,
    545922, 544495, 543066, 541638, 540208, 538778, 537347, 535916, 534484, 533051, 531618, 530185,
    528751, 527316, 525881, 524445, 523010, 521573, 520137, 518700, 517263, 515825, 514387, 512949,
    511511, 510072, 508634, 507195, 505756, 504317, 502878, 501439, 500000, 498561, 497122, 495683,
    494244, 492805, 491366, 489928, 488489, 487051, 485613, 484175, 482737, 481300, 479863, 478427,
    476990, 475555, 474119, 472684, 471249, 469815, 468382, 466949, 465516, 464084, 462653, 461222,
    459792, 458362, 456934, 455505, 454078, 452651, 451226, 449801, 448376, 446953, 445531, 444109,
    442688, 441269, 439850, 438432, 437015, 435600, 434185, 432771, 431359, 429947, 428537, 427128,
    425720, 424313, 422908, 421503, 420100, 418699, 417298, 415899, 414501, 413105, 411710, 410316,
    408924, 407534, 406145, 404757, 403371, 401986, 400603, 399222, 397842, 396464, 395087, 393712,
    392339, 390967, 389598, 388229, 386863, 385499, 384136, 382775, 381416, 380059, 378703, 377350,
    375998, 374649, 373301, 371955, 370611, 369270, 367930, 366592, 365257, 363923, 362592, 361262,
    359935, 358610, 357287, 355966, 354648, 353331, 352017, 350705, 349395, 348088, 346783, 345480,
    344179, 342881, 341585, 340292, 339001, 337712, 336426, 335142, 333861, 332582, 331305, 330031,
    328759, 327490, 326224, 324960, 323698, 322439, 321183, 319929, 318678, 317430, 316184, 314940,
    313700, 312462, 311226, 309994, 308764, 307537, 306312, 305090, 303871, 302655, 301441, 300231,
    299023, 297817, 296615, 295415, 294219, 293025, 291834, 290645, 289460, 288277, 287098, 285921,
    284747, 283576, 282408, 281243, 280081, 278922, 277765, 276612, 275462, 274314, 273170, 272028,
    270890, 269755, 268622, 267493, 266366, 265243, 264123, 263005, 261891, 260780, 259672, 258566,
    257464, 256365, 255270, 254177, 253087, 252000, 250917, 249837, 248759, 247685, 246614, 245546,
    244481, 243419, 242361, 241305, 240253, 239204, 238158, 237115, 236075, 235039, 234005, 232975,
    231948, 230924, 229903, 228886, 227871, 226860, 225852, 224847, 223845, 222847, 221852, 220859,
    219870, 218885, 217902, 216923, 215946, 214973, 214003, 213037, 212073, 211113, 210156, 209202,
    208251, 207304, 206359, 205418, 204480, 203545, 202614, 201685, 200760, 199838, 198919, 198003,
    197091, 196181, 195275, 194372, 193472, 192576, 191682, 190792, 189905, 189021, 188140, 187262,
    186388, 185516, 184648, 183783, 182921, 182062, 181207, 180354, 179505, 178659, 177815, 176975,
    176138, 175305, 174474, 173646, 172822, 172001, 171182, 170367, 169555, 168746, 167940, 167137,
    166338, 165541, 164747, 163957, 163169, 162385, 161603, 160825, 160049, 159277, 158508, 157741,
    156978, 156218, 155460, 154706, 153955, 153207, 152461, 151719, 150980, 150243, 149510, 148779,
    148052, 147327, 146605, 145887, 145171, 144458, 143748, 143041, 142337, 141635, 140937, 140241,
    139549, 138859, 138172, 137488, 136807, 136129, 135453, 134780, 134110, 133443, 132779, 132118,
    131459, 130803, 130150, 129500, 128852, 128207, 127565, 126926, 126290, 125656, 125025, 124396,
    123771, 123148, 122527, 121910, 121295, 120683, 120073, 119466, 118862, 118261, 117662, 117065,
    116472, 115881, 115292, 114706, 114123, 113542, 112964, 112389, 111816, 111245, 110677, 110112,
    109549, 108989, 108431, 107876, 107323, 106773, 106225, 105680, 105137, 104597, 104059, 103523,
    102990, 102460, 101932, 101406, 100883, 100362, 99843, 99327, 98813, 98302, 97793, 97286,
    96782, 96280, 95780, 95282, 94787, 94295, 93804, 93316, 92830, 92346, 91865, 91386,
    90909, 90434, 89962, 89492, 89024, 88558, 88095, 87633, 87174, 86717, 86262, 85810,
    85359, 84911, 84465, 84021, 83579, 83139, 82701, 82265, 81832, 81400, 80971, 80544,
    80118, 79695, 79274, 78855, 78438, 78023, 77609, 77198, 76789, 76382, 75977, 75574,
    75173, 74774, 74376, 73981, 73588, 73196, 72807, 72419, 72033, 71649, 71267, 70887,
    70509, 70133, 69758, 69386, 69015, 68646, 68279, 67914, 67550, 67188, 66828, 66470,
    66114, 65760, 65407, 65056, 64707, 64359, 64013, 63669, 63327, 62986, 62647, 62310,
    61975, 61641, 61309, 60978, 60650, 60322, 59997, 59673, 59351, 59030, 58711, 58394,
    58078, 57764, 57452, 57141, 56832, 56524, 56218, 55913, 55610, 55308, 55008, 54710,
    54413, 54117, 53824, 53531, 53240, 52951, 52663, 52376, 52091, 51808, 51526, 51245,
    50966, 50688, 50412, 50137, 49864, 49592, 49321, 49052, 48784, 48518, 48253, 47989,
    47727, 47466, 47206, 46948, 46691, 46435, 46181, 45928, 45677, 45427, 45178, 44930,
    44684, 44438, 44195, 43952, 43711, 43471, 43232, 42995, 42758, 42523, 42290, 42057,
    41826, 41596, 41367, 41139, 40913, 40687, 40463, 40240, 40019, 39798, 39579, 39360,
    39143, 38927, 38713, 38499, 38287, 38075, 37865, 37656, 37448, 37241, 37035, 36830,
    36626, 36424, 36222, 36022, 35823, 35624, 35427, 35231, 35036, 34842, 34649, 34457,
    34266, 34076, 33887, 33699, 33512, 33326, 33141, 32957, 32774, 32592, 32411, 32231,
    32052, 31874, 31697, 31520, 31345, 31171, 30997, 30825, 30653, 30483, 30313, 30144,
    29977, 29810, 29644, 29478, 29314, 29151, 28988, 28827, 28666, 28506, 28347, 28189,
    28032, 27875, 27720, 27565, 27411, 27258, 27106, 26955, 26804, 26654, 26505, 26357,
    26210, 26063, 25918, 25773, 25629, 25485, 25343, 25201, 25060, 24920, 24780, 24641,
    24503, 24366, 24230, 24094, 23959, 23825, 23691, 23558, 23426, 23295, 23164, 23035,
    22905, 22777, 22649, 22522, 22396, 22270, 22145, 22021, 21897, 21774, 21652, 21530,
    21409, 21289, 21169, 21050, 20932, 20814, 20697, 20581, 20465, 20350, 20236, 20122,
    20009, 19896, 19784, 19673, 19562, 19452, 19343, 19234, 19126, 19018, 18911, 18804,
    18698, 18593, 18488, 18384, 18280, 18177, 18075, 17973, 17872, 17771, 17671, 17571,
    17472, 17374, 17276, 17178, 17081, 16985, 16889, 16794, 16699, 16605, 16511, 16418,
    16325, 16233, 16141, 16050, 15959, 15869, 15779, 15690, 15602, 15513, 15426, 15339,
    15252, 15166, 15080, 14995, 14910, 14826, 14742, 14658, 14575, 14493, 14411, 14330,
    14248, 14168, 14088, 14008, 13929, 13850, 13771, 13693, 13616, 13539, 13462, 13386,
    13310, 13235, 13160, 13085, 13011, 12937, 12864, 12791, 12719, 12647, 12575, 12504,
    12433, 12362, 12292, 12222, 12153, 12084, 12016, 11948, 11880, 11812, 11745, 11679,
    11613, 11547, 11481, 11416, 11351, 11287, 11223, 11159, 11096, 11033, 10970, 10908,
    10846, 10784, 10723, 10662, 10602, 10541, 10482, 10422, 10363, 10304, 10245, 10187,
    10129, 10072, 10014, 9958, 9901 >>

\* calculateExpectedScore: 1 / (1 + 10^((opponentRating - playerRating) / 400)), in millionths
calculateExpectedScore(playerRating, opponentRating) ==
    ExpectedScores[opponentRating - playerRating + 801]

Max(a, b) == IF a >= b THEN a ELSE b

\* Math.round: floor(x + 0.5), x in millionths
MathRound(micro) == (micro + 500000) \div 1000000

\* calculateNewRating without Math.max(..., MIN_RATING)
calculateNewRating_noFloor(currentRating, expectedScore, actualScore, kFactor) ==
    MathRound(currentRating * 1000000 + kFactor * (actualScore * 1000000 - expectedScore))

\* calculateNewRating; actualScore is 1 or 0
calculateNewRating(currentRating, expectedScore, actualScore, kFactor) ==
    Max(MathRound(currentRating * 1000000 + kFactor * (actualScore * 1000000 - expectedScore)),
        MIN_RATING)

\* calculateMatchResult with the loser's expected score taken from the winner's side
calculateMatchResult_winnerExpected(winnerRating, loserRating) ==
    LET winnerNewRating ==
            calculateNewRating(winnerRating, calculateExpectedScore(winnerRating, loserRating),
                               1, K_FACTOR)
        loserNewRating ==
            calculateNewRating(loserRating, calculateExpectedScore(winnerRating, loserRating),
                               0, K_FACTOR)
    IN [winner |-> [newRating |-> winnerNewRating, delta |-> winnerNewRating - winnerRating],
        loser |-> [newRating |-> loserNewRating, delta |-> loserNewRating - loserRating]]

calculateMatchResult(winnerRating, loserRating) ==
    LET winnerNewRating ==
            calculateNewRating(winnerRating, calculateExpectedScore(winnerRating, loserRating),
                               1, K_FACTOR)
        loserNewRating ==
            calculateNewRating(loserRating, calculateExpectedScore(loserRating, winnerRating),
                               0, K_FACTOR)
    IN [winner |-> [newRating |-> winnerNewRating, delta |-> winnerNewRating - winnerRating],
        loser |-> [newRating |-> loserNewRating, delta |-> loserNewRating - loserRating]]

BOT_RATINGS(botDifficulty) ==
    CASE botDifficulty = "easy" -> 800
      [] botDifficulty = "medium" -> 1100
      [] botDifficulty = "hard" -> 1400
      [] botDifficulty = "impossible" -> 1800
      [] OTHER -> 1100

\* the rating part of updateRatingAfterBotMatch
botMatchRating(playerRating, playerWon, botDifficulty) ==
    LET newRating ==
            calculateNewRating(playerRating,
                               calculateExpectedScore(playerRating, BOT_RATINGS(botDifficulty)),
                               IF playerWon THEN 1 ELSE 0, K_FACTOR \div 2)
    IN [newRating |-> newRating, delta |-> newRating - playerRating]

\* MatchmakingService.createBotOpponent: the difficulty for a player's rating
botDifficultyFor(playerElo) ==
    IF playerElo < 900 THEN "easy"
    ELSE IF playerElo < 1200 THEN "medium"
    ELSE IF playerElo < 1500 THEN "hard"
    ELSE "impossible"

-----------------------------------------------------------------------------
(* socketHandlers: handleGameEnd and notifyGameEnd *)

\* a JavaScript number or undefined
Num(n) == <<n>>
Undefined == <<>>
Truthy(x) == x # <<>> /\ x[1] # 0
OrElse(a, b) == IF Truthy(a) THEN a ELSE b     \* a || b

NoElo == [kind |-> "none"]

humanOf(game) == CHOOSE p \in DOMAIN game.players : ~game.players[p].isBot
botOf(game) == CHOOSE p \in DOMAIN game.players : game.players[p].isBot
isBotGame(game) == \E p \in DOMAIN game.players : game.players[p].isBot

\* handleGameEnd: which rating update it calls for the game it was given
eloCall(game) ==
    IF isBotGame(game) THEN "bot"
    ELSE IF game.winner \in DOMAIN game.players THEN "pvp"
    ELSE "none"

\* handleGameEnd: the result of the rating update it calls
eloResultOf(game) ==
    CASE eloCall(game) = "bot" ->
            [kind |-> "bot",
             player |-> botMatchRating(game.players[humanOf(game)].elo,
                                       game.winner = humanOf(game),
                                       game.players[botOf(game)].botDifficulty)]
      [] eloCall(game) = "pvp" ->
            [kind |-> "pvp",
             ratings |-> calculateMatchResult(game.players[game.winner].elo,
                                              game.players[OpponentId(game.winner)].elo)]
      [] OTHER -> NoElo

\* the users.elo written by the transaction of the rating update
eloCommit(elo, game) ==
    LET r == eloResultOf(game)
    IN CASE r.kind = "bot" -> [elo EXCEPT ![humanOf(game)] = r.player.newRating]
         [] r.kind = "pvp" -> [elo EXCEPT ![game.winner] = r.ratings.winner.newRating,
                                          ![OpponentId(game.winner)] = r.ratings.loser.newRating]
         [] OTHER -> elo

\* the persistent store as the transactions see it: users.elo, the counters, the matches rows
persistent(elo, d) == [elo |-> elo, users |-> d.users, matches |-> d.matches]

\* tx.user.update({where: {id}, data: {elo, wins or losses: increment, gamesPlayed: increment}})
userUpdate(id, elo, won) == [op |-> "user.update", id |-> id, elo |-> elo, won |-> won]

\* tx.match.create({data}); isBotMatch defaults to false and botDifficulty to null
matchCreate(row) == [op |-> "match.create", row |-> row]

\* the statements of the transaction of updateRatingsAfterMatch, in order
updateRatingsAfterMatch(winnerId, loserId, winnerRating, loserRating) ==
    LET ratingResult == calculateMatchResult(winnerRating, loserRating)
    IN <<userUpdate(winnerId, ratingResult.winner.newRating, TRUE),
         userUpdate(loserId, ratingResult.loser.newRating, FALSE),
         matchCreate([winnerId |-> winnerId, loserId |-> loserId,
                      winnerEloBefore |-> winnerRating,
                      winnerEloAfter |-> ratingResult.winner.newRating,
                      loserEloBefore |-> loserRating,
                      loserEloAfter |-> ratingResult.loser.newRating,
                      isBotMatch |-> FALSE, botDifficulty |-> NULL])>>

\* updateRatingAfterBotMatch with K_FACTOR * 0.5 in place of its botMatchKFactor
updateRatingAfterBotMatch_fullK(playerId, playerRating, playerWon, botDifficulty) ==
    LET botRating == BOT_RATINGS(botDifficulty)
        newRating == calculateNewRating(playerRating,
                                        calculateExpectedScore(playerRating, botRating),
                                        IF playerWon THEN 1 ELSE 0, K_FACTOR)
    IN <<userUpdate(playerId, newRating, playerWon),
         matchCreate([winnerId |-> IF playerWon THEN playerId ELSE NULL,
                      loserId |-> IF playerWon THEN NULL ELSE playerId,
                      winnerEloBefore |-> IF playerWon THEN playerRating ELSE botRating,
                      winnerEloAfter |-> IF playerWon THEN newRating ELSE botRating,
                      loserEloBefore |-> IF playerWon THEN botRating ELSE playerRating,
                      loserEloAfter |-> IF playerWon THEN botRating ELSE newRating,
                      isBotMatch |-> TRUE, botDifficulty |-> botDifficulty])>>

\* the statements of the transaction of updateRatingAfterBotMatch, in order
updateRatingAfterBotMatch(playerId, playerRating, playerWon, botDifficulty) ==
    LET botRating == BOT_RATINGS(botDifficulty)
        newRating == botMatchRating(playerRating, playerWon, botDifficulty).newRating
    IN <<userUpdate(playerId, newRating, playerWon),
         matchCreate([winnerId |-> IF playerWon THEN playerId ELSE NULL,
                      loserId |-> IF playerWon THEN NULL ELSE playerId,
                      winnerEloBefore |-> IF playerWon THEN playerRating ELSE botRating,
                      winnerEloAfter |-> IF playerWon THEN newRating ELSE botRating,
                      loserEloBefore |-> IF playerWon THEN botRating ELSE playerRating,
                      loserEloAfter |-> IF playerWon THEN botRating ELSE newRating,
                      isBotMatch |-> TRUE, botDifficulty |-> botDifficulty])>>

\* handleGameEnd with the ratings read from the users rows instead of the match
statementsOf_storedRatings(game, elo) ==
    CASE eloCall(game) = "bot" ->
            updateRatingAfterBotMatch(humanOf(game), elo[humanOf(game)],
                                      game.winner = humanOf(game),
                                      game.players[botOf(game)].botDifficulty)
      [] eloCall(game) = "pvp" ->
            updateRatingsAfterMatch(game.winner, OpponentId(game.winner),
                                    elo[game.winner], elo[OpponentId(game.winner)])
      [] OTHER -> <<>>

\* handleGameEnd: the statements of the rating update it calls for the game it was given;
\* elo is users.elo at the time of the call
statementsOf(game, elo) ==
    CASE eloCall(game) = "bot" ->
            updateRatingAfterBotMatch(humanOf(game), game.players[humanOf(game)].elo,
                                      game.winner = humanOf(game),
                                      game.players[botOf(game)].botDifficulty)
      [] eloCall(game) = "pvp" ->
            updateRatingsAfterMatch(game.winner, OpponentId(game.winner),
                                    game.players[game.winner].elo,
                                    game.players[OpponentId(game.winner)].elo)
      [] OTHER -> <<>>

\* one statement applied to the store
applied(p, o) ==
    IF o.op = "user.update"
    THEN [p EXCEPT !.elo[o.id] = o.elo,
                   !.users[o.id].wins = IF o.won THEN @ + 1 ELSE @,
                   !.users[o.id].losses = IF o.won THEN @ ELSE @ + 1,
                   !.users[o.id].gamesPlayed = @ + 1]
    ELSE [p EXCEPT !.matches = Append(@, o.row)]

RECURSIVE appliedAll(_, _)
appliedAll(p, statements) ==
    IF statements = <<>> THEN p
    ELSE appliedAll(applied(p, Head(statements)), Tail(statements))

\* a statement sent on the client itself and not on tx: it is applied at once
executed_outsideTx(p, pending, o) == [store |-> applied(p, o), pending |-> pending]

\* a statement of prisma.$transaction(async (tx) => ...): it is held by the transaction
executed(p, pending, o) == [store |-> p, pending |-> Append(pending, o)]

\* COMMIT: the statements the transaction holds are applied together
committed(p, pending) == appliedAll(p, pending)

\* getPlayerSocketIds: the mapped socket first, then the sockets found by the scan
RECURSIVE scanSockets(_, _, _, _)
scanSockets(i, playerId, sp, ids) ==
    IF i > Len(SocketOrder) THEN ids
    ELSE LET s == SocketOrder[i]
         IN scanSockets(i + 1, playerId, sp,
                        IF sp[s] = playerId /\ \A k \in DOMAIN ids : ids[k] # s
                        THEN Append(ids, s) ELSE ids)

getPlayerSocketIds(playerId, ps, sp) ==
    scanSockets(1, playerId, sp, IF ps[playerId] # NULL THEN <<ps[playerId]>> ELSE <<>>)

eloField(eloResult, isWinner, field) ==
    CASE eloResult.kind = "pvp" ->
            OrElse(Num(IF isWinner THEN eloResult.ratings.winner[field]
                       ELSE eloResult.ratings.loser[field]), Undefined)
      [] eloResult.kind = "bot" -> OrElse(Undefined, Num(eloResult.player[field]))

\* the game:end payload notifyGameEnd builds for one player
gameEndEvent(socketId, game, player, reason, eloResult) ==
    LET isWinner == game.winner = player
    IN [to |-> socketId, ev |-> "game:end", player |-> player,
        result |-> IF game.winner = NULL THEN "draw" ELSE IF isWinner THEN "win" ELSE "loss",
        reason |-> reason,
        targetWord |-> game.targetWord,
        eloChange |-> IF eloResult.kind # "none" THEN eloField(eloResult, isWinner, "delta")
                      ELSE Num(0),
        newElo |-> IF eloResult.kind # "none" THEN eloField(eloResult, isWinner, "newRating")
                   ELSE Num(game.players[player].elo)]

\* notifyGameEnd: the events it emits, in order
RECURSIVE notifyPlayers(_, _, _, _, _, _)
notifyPlayers(i, game, reason, eloResult, ps, sp) ==
    IF i > Len(PlayerOrder) THEN <<>>
    ELSE LET player == PlayerOrder[i]
             ids == getPlayerSocketIds(player, ps, sp)
             mine == IF game.players[player].isBot THEN <<>>
                     ELSE [k \in DOMAIN ids |-> gameEndEvent(ids[k], game, player, reason, eloResult)]
         IN mine \o notifyPlayers(i + 1, game, reason, eloResult, ps, sp)

notifyGameEnd(game, reason, eloResult) ==
    notifyPlayers(1, game, reason, eloResult, playerSockets, socketPlayers)

-----------------------------------------------------------------------------
(* redis.js: the win lock *)

\* SET without NX: every call overwrites the key
acquireWinLock_noNX(lock, playerId, timestamp) ==
    <<[playerId |-> playerId, timestamp |-> timestamp]>>

\* SET key value NX: the value under the key after the command
acquireWinLock(lock, playerId, timestamp) ==
    IF lock = <<>> THEN <<[playerId |-> playerId, timestamp |-> timestamp]>> ELSE lock

\* result === "OK"
wonLock(lock) == lock = <<>>

\* getWinner: the value under the key, or null
getWinner(lock) == lock

-----------------------------------------------------------------------------
(* Initial states: a match created by startGame, after some guesses that missed *)

Ratings == {1000, 1200}
BotProc == "timer"
Procs == Sockets \cup {BotProc}
Idle == [pc |-> "idle"]

priorGuesses(n, firstTimestamp) ==
    [k \in 1..n |-> guessRecord(SLATE, CRANE, firstTimestamp + k, k)]

priorLog(playerId, guesses) ==
    [k \in DOMAIN guesses |-> [playerId |-> playerId, type |-> "guess", data |-> guesses[k]]]

\* GameService.createGame, followed by n1 guesses of player 1 and then n2 guesses of player 2
createGame(elo1, elo2, bot, n1, n2) ==
    [id |-> GameId,
     targetWord |-> CRANE,
     status |-> ACTIVE,
     startTime |-> 0,
     players |-> [p \in Players |->
                    IF p = P1
                    THEN [id |-> P1, elo |-> elo1, guesses |-> priorGuesses(n1, 0),
                          isBot |-> FALSE, botDifficulty |-> NULL]
                    ELSE [id |-> P2, elo |-> elo2, guesses |-> priorGuesses(n2, n1),
                          isBot |-> bot,
                          botDifficulty |-> IF bot THEN botDifficultyFor(elo1) ELSE NULL]],
     replayLog |-> priorLog(P1, priorGuesses(n1, 0)) \o priorLog(P2, priorGuesses(n2, n1)),
     winner |-> NULL,
     endTime |-> NoTime]

\* a socket id before its connection, and the socket after io.on('connection'): the
\* handshake sets user (null without a token), register sets userData, startGame and
\* game:rejoin set gameId
Fresh == [state |-> "fresh", user |-> NULL, userData |-> NULL, gameId |-> NULL]
Open(user, userData, gameId) ==
    [state |-> "open", user |-> user, userData |-> userData, gameId |-> gameId]

NoGrace == [pc |-> "none"]

\* the users rows of new accounts and an empty matches table
NoRows == [users |-> [u \in {"p1", "p2", "p3"} |-> [wins |-> 0, losses |-> 0, gamesPlayed |-> 0]],
           matches |-> <<>>]

\* the sockets of a started match, and no matchmaking
InitFar ==
    /\ conn = [s \in Sockets |->
                 IF socketPlayers[s] = NULL THEN Fresh
                 ELSE Open(socketPlayers[s], socketPlayers[s],
                           IF socketPlayers[s] \in Players THEN GameId ELSE NULL)]
    /\ grace = [s \in Sockets |-> NoGrace]
    /\ queue = {}
    /\ playerKey = [u \in Users |-> <<>>]
    /\ searches = [u \in Users |-> <<>>]
    /\ attempts = <<>>
    /\ retry = [u \in Users |-> {}]
    /\ started = <<>>
    /\ phase = [u \in Users |-> "none"]
    /\ pure = <<>>
    /\ db = NoRows

InitMatch(bot, elo1, n1, n2) ==
    LET elo2 == IF bot THEN BOT_RATINGS(botDifficultyFor(elo1)) ELSE 1200
    IN /\ store = createGame(elo1, elo2, bot, n1, n2)
       /\ winLock = <<>>
       /\ now = n1 + n2 + 1
       /\ h = [pr \in Procs |-> Idle]
       /\ emitted = <<>>
       /\ userElo = [u \in Users |-> IF u = P1 THEN elo1 ELSE IF u = P2 THEN elo2 ELSE 1200]
       \* one timer per accepted human guess, until the bot has used its guesses
       /\ timers = IF bot /\ n2 < MAX_GUESSES THEN n1 ELSE 0
       /\ activeGames = TRUE
       /\ playerSockets = [u \in Users |-> IF bot /\ u = P2 THEN NULL ELSE SocketOf(u)]
       /\ socketPlayers = [s \in Sockets |->
                             IF s = "s1" THEN P1
                             ELSE IF s = "s2" THEN (IF bot THEN NULL ELSE P2)
                             ELSE P3]
       /\ ops = 0
       /\ oks = [p \in Players |-> IF p = P1 THEN n1 ELSE n2]
       /\ winners = {}
       /\ lockLog = <<>>
       /\ InitFar

\* the guesses already recorded for a player when the model starts: none, or all but one
PriorCounts == {0, MAX_GUESSES - 1}

Init ==
    \E bot \in BOOLEAN, elo1 \in Ratings, n1 \in PriorCounts, n2 \in PriorCounts :
        /\ bot /\ n1 = 0 => n2 = 0                      \* the bot moves after the human
        /\ InitMatch(bot, elo1, n1, n2)

-----------------------------------------------------------------------------
(* processGuess *)

RawGuesses ==
    {<<>>,
     <<"c", "r", "a", "n", "e">>,
     SLATE,
     <<" ", "s", "l", "a", "t", "e", " ">>,
     <<"C", "A", "T">>,
     <<"Q", "Q", "Q", "Q", "Q">>}

BotGuesses == {CRANE, SLATE}

\* processGuess from the load of the game to its first await after it: the locals of the call
processGuessLocals(kind, game, playerId, raw, timestamp) ==
    LET guess == trim(toUpperCase(raw))
        rec == guessRecord(guess, game.targetWord, timestamp,
                           Len(game.players[playerId].guesses) + 1)
        pushed == pushGuess(game, playerId, rec)
        isCorrect == isCorrectGuess(guess, game.targetWord)
    IN [pc |-> IF isCorrect THEN "acquireWinLock" ELSE "setGameState",
        kind |-> kind,
        playerId |-> playerId,
        game |-> IF isCorrect THEN pushed ELSE checkExhausted(pushed, FALSE, timestamp),
        rec |-> rec,
        isCorrect |-> isCorrect,
        gameEnded |-> IF isCorrect THEN FALSE ELSE endedAfterCheck(pushed, FALSE),
        winnerInfo |-> NULL]

emit(events) == emitted' = events

\* the history of the stored winner follows every write of the match
recordWinner == winners' = winners \cup ({store'.winner} \cap Players)

\* socket.on('game:guess') up to the first await inside processGuess
GuessEvent(limit, s, gameId, raw) ==
    LET playerId == socketPlayers[s]
        found == getGame(gameId)
        err == guessError(found, playerId, raw)
    IN /\ ops < limit
       /\ h[s].pc = "idle"
       /\ playerId # NULL
       /\ ops' = ops + 1
       /\ IF raw = <<>>
          THEN /\ emit(<<[to |-> s, ev |-> "error", message |-> "Invalid guess data"]>>)
               /\ UNCHANGED <<h, now>>
          ELSE IF err # NULL
          THEN /\ emit(<<[to |-> s, ev |-> "game:guess:invalid", error |-> err]>>)
               /\ UNCHANGED <<h, now>>
          ELSE /\ h' = [h EXCEPT ![s] = processGuessLocals("guess", found[1], playerId, raw, now)]
               /\ now' = now + 1
               /\ emit(<<>>)
       /\ UNCHANGED <<store, winLock, userElo, timers, activeGames, playerSockets,
                      socketPlayers, oks, winners,
                      lockLog, farVars>>

\* await acquireWinLock(gameId, playerId) and the branch taken on its result
AcquireWinLock(pr) ==
    LET l == h[pr]
    IN /\ l.pc = "acquireWinLock"
       /\ winLock' = acquireWinLock(winLock, l.playerId, now)
       /\ now' = now + 1
       /\ h' = [h EXCEPT ![pr] =
                  IF wonLock(winLock)
                  THEN [l EXCEPT !.pc = "setGameState",
                                 !.game = wonLockUpdate(l.game, l.playerId, l.rec.timestamp),
                                 !.gameEnded = TRUE,
                                 !.winnerInfo = l.playerId]
                  ELSE [l EXCEPT !.pc = "getWinner"]]
       /\ emit(<<>>)
       /\ UNCHANGED <<store, userElo, timers, activeGames, playerSockets,
                      socketPlayers, ops, oks, winners,
                      lockLog, farVars>>

\* await getWinner(gameId), the adoption of the winner and the check for loss
GetWinner(pr) ==
    LET l == h[pr]
        existingWinner == getWinner(winLock)
        adopted == IF existingWinner # <<>> THEN adoptWinner(l.game, existingWinner[1])
                   ELSE l.game
        ended == existingWinner # <<>>
    IN /\ l.pc = "getWinner"
       /\ h' = [h EXCEPT ![pr] =
                  [l EXCEPT !.pc = "setGameState",
                            !.game = checkExhausted(adopted, ended, l.rec.timestamp),
                            !.gameEnded = endedAfterCheck(adopted, ended)]]
       /\ emit(<<>>)
       /\ UNCHANGED <<store, winLock, now, userElo, timers, activeGames,
                      playerSockets, socketPlayers, ops, oks, winners,
                      lockLog, farVars>>

colorsOf(rec) == [i \in 1..5 |-> rec.evaluation[i].color]

opponentGuessEvent_withWord(socketId, rec) ==
    [to |-> socketId, ev |-> "game:opponent:guess", word |-> rec.word,
     colors |-> colorsOf(rec), guessNumber |-> rec.guessNumber]

opponentGuessEvent(socketId, rec) ==
    [to |-> socketId, ev |-> "game:opponent:guess", colors |-> colorsOf(rec),
     guessNumber |-> rec.guessNumber]

\* await setGameState(gameId, game) and what the caller of processGuess does with the result
\* up to its next await
SetGameState(pr) ==
    LET l == h[pr]
        humanSocketIds == getPlayerSocketIds(humanOf(l.game), playerSockets, socketPlayers)
    IN /\ l.pc = "setGameState"
       /\ store' = l.game
       /\ oks' = [oks EXCEPT ![l.playerId] = @ + 1]
       /\ IF l.kind = "guess"
          THEN /\ emit(<<[to |-> pr, ev |-> "game:guess:result", word |-> l.rec.word,
                          colors |-> colorsOf(l.rec), guessNumber |-> l.rec.guessNumber,
                          isCorrect |-> l.isCorrect,
                          remainingGuesses |->
                              MAX_GUESSES - Len(l.game.players[l.playerId].guesses)]>>)
               /\ h' = [h EXCEPT ![pr] = [l EXCEPT !.pc = "getGame"]]
               /\ UNCHANGED timers
          ELSE /\ emit([k \in DOMAIN humanSocketIds |->
                          opponentGuessEvent(humanSocketIds[k], l.rec)])
               /\ IF l.gameEnded
                  THEN /\ h' = [h EXCEPT ![pr] = [l EXCEPT !.pc = "getGame"]]
                       /\ UNCHANGED timers
                  ELSE /\ h' = [h EXCEPT ![pr] = Idle]
                       /\ timers' = timers + 1
       /\ recordWinner
       /\ UNCHANGED <<winLock, now, userElo, activeGames, playerSockets, socketPlayers, ops, lockLog, farVars>>


\* handleGameEnd when it calls no rating update, or after the update returned
endGame(pr, game, eloResult) ==
    /\ emit(notifyGameEnd(game, "complete", eloResult))
    /\ activeGames' = FALSE
    /\ h' = [h EXCEPT ![pr] = Idle]

\* await GameService.getGame(gameId) in the caller of processGuess, the masked event for the
\* opponent, handleGameEnd up to its await, and the trigger of the bot
GetGame(pr) ==
    LET l == h[pr]
        game == store
        opponentSocketId == playerSockets[OpponentId(l.playerId)]
        masked == IF l.kind = "guess" /\ opponentSocketId # NULL
                  THEN <<opponentGuessEvent(opponentSocketId, l.rec)>> ELSE <<>>
    IN /\ l.pc = "getGame"
       /\ IF l.gameEnded
          THEN IF eloCall(game) # "none"
               THEN /\ emit(masked)
                    /\ h' = [h EXCEPT ![pr] = [pc |-> "elo", game |-> game]]
                    /\ UNCHANGED <<activeGames, timers>>
               ELSE /\ emit(masked \o notifyGameEnd(game, "complete", NoElo))
                    /\ activeGames' = FALSE
                    /\ h' = [h EXCEPT ![pr] = Idle]
                    /\ UNCHANGED timers
          ELSE /\ emit(masked)
               /\ h' = [h EXCEPT ![pr] = Idle]
               /\ timers' = IF activeGames /\ isBotGame(game) THEN timers + 1 ELSE timers
               /\ UNCHANGED activeGames
       /\ UNCHANGED <<store, winLock, now, userElo, playerSockets, socketPlayers, ops, oks, winners,
                      lockLog, farVars>>

\* the transaction of EloService, then notifyGameEnd and activeGames.delete
EloUpdate(pr) ==
    LET l == h[pr]
    IN /\ l.pc = "elo"
       /\ userElo' = eloCommit(userElo, l.game)
       /\ db' = LET after == committed(persistent(userElo, db), statementsOf(l.game, userElo))
                IN [users |-> after.users, matches |-> after.matches]
       /\ endGame(pr, l.game, eloResultOf(l.game))
       /\ UNCHANGED <<store, winLock, now, timers, playerSockets, socketPlayers, ops, oks, winners,
                      lockLog, farButDb>>

-----------------------------------------------------------------------------
(* the rating update statement by statement: a statement of the transaction, or its COMMIT,
   may fail, and then the transaction is rolled back and handleGameEnd catches the error *)

\* the next statement of the transaction of the rating update
TxStatement(pr) ==
    LET l == h[pr]
        first == l.pc = "elo"
        statements == IF first THEN statementsOf(l.game, userElo) ELSE l.statements
        pending == IF first THEN <<>> ELSE l.pending
        after == executed(persistent(userElo, db), pending, statements[Len(pending) + 1])
    IN /\ l.pc \in {"elo", "tx"}
       /\ Len(pending) < Len(statements)
       /\ h' = [h EXCEPT ![pr] = [pc |-> "tx", game |-> l.game, statements |-> statements,
                                   pending |-> after.pending]]
       /\ userElo' = after.store.elo
       /\ db' = [users |-> after.store.users, matches |-> after.store.matches]
       /\ emit(<<>>)
       /\ UNCHANGED <<store, winLock, now, timers, activeGames, playerSockets, socketPlayers,
                      ops, oks, winners, lockLog, farButDb>>

\* COMMIT, the return of the rating update, notifyGameEnd and activeGames.delete
TxCommit(pr) ==
    LET l == h[pr]
        after == committed(persistent(userElo, db), l.pending)
    IN /\ l.pc = "tx"
       /\ Len(l.pending) = Len(l.statements)
       /\ userElo' = after.elo
       /\ db' = [users |-> after.users, matches |-> after.matches]
       /\ endGame(pr, l.game, eloResultOf(l.game))
       /\ UNCHANGED <<store, winLock, now, timers, playerSockets, socketPlayers, ops, oks,
                      winners, lockLog, farButDb>>

\* handleGameEnd without its try: the error leaves it and nothing is emitted
caught_uncaught(game) == <<>>

\* handleGameEnd: catch (error) { notifyGameEnd(io, game, 'complete') }
caught(game) == notifyGameEnd(game, "complete", NoElo)

\* a statement or the COMMIT throws: ROLLBACK, and the catch of handleGameEnd calls
\* notifyGameEnd(io, game, 'complete') and activeGames.delete
TxFail(pr) ==
    LET l == h[pr]
    IN /\ l.pc \in {"elo", "tx"}
       /\ emit(caught(l.game))
       /\ activeGames' = FALSE
       /\ h' = [h EXCEPT ![pr] = Idle]
       /\ UNCHANGED <<store, winLock, now, userElo, timers, playerSockets, socketPlayers, ops,
                      oks, winners, lockLog, farVars>>

\* the rating update of another match commits: a match of a human of this match against P3,
\* created when this match was, so that its player slots hold the ratings of that time
\* (1200 for P3)
OtherMatchCommit(limit, u, won) ==
    LET rating == store.players[u].elo
        statements == IF won THEN updateRatingsAfterMatch(u, P3, rating, 1200)
                      ELSE updateRatingsAfterMatch(P3, u, 1200, rating)
        after == committed(persistent(userElo, db), statements)
    IN /\ ops < limit
       /\ ~store.players[u].isBot
       /\ ops' = ops + 1
       /\ userElo' = after.elo
       /\ db' = [users |-> after.users, matches |-> after.matches]
       /\ emit(<<>>)
       /\ UNCHANGED <<store, winLock, now, h, timers, activeGames, playerSockets,
                      socketPlayers, oks, winners, lockLog, farButDb>>

-----------------------------------------------------------------------------
(* forfeit *)

\* socket.on('game:forfeit') up to the load of the game in forfeitGame
ForfeitEvent(limit, s, gameId) ==
    LET playerId == socketPlayers[s]
        found == getGame(gameId)
    IN /\ ops < limit
       /\ h[s].pc = "idle"
       /\ playerId # NULL
       /\ ops' = ops + 1
       /\ IF found = <<>> \/ found[1].status # ACTIVE
          THEN UNCHANGED <<h, now>>
          ELSE /\ h' = [h EXCEPT ![s] = [pc |-> "forfeitSave", playerId |-> playerId,
                                          loaded |-> found[1],
                                          game |-> forfeited(found[1], playerId, now)]]
               /\ now' = now + 1
       /\ emit(<<>>)
       /\ UNCHANGED <<store, winLock, userElo, timers, activeGames, playerSockets,
                      socketPlayers, oks, winners,
                      lockLog, farVars>>

\* await setGameState in forfeitGame, then notifyGameEnd(io, game, 'forfeit')
ForfeitSave(s) ==
    LET l == h[s]
    IN /\ l.pc = "forfeitSave"
       /\ store' = l.game
       /\ emit(notifyGameEnd(l.game, "forfeit", NoElo))
       /\ h' = [h EXCEPT ![s] = Idle]
       /\ recordWinner
       /\ UNCHANGED <<winLock, now, userElo, timers, activeGames, playerSockets,
                      socketPlayers, ops, oks, lockLog, farVars>>

-----------------------------------------------------------------------------
(* the bot timer *)

\* the callback of setTimeout in triggerBotGuess up to its check of the current game
TimerFire(limit) ==
    /\ ops < limit
    /\ timers > 0
    /\ h[BotProc].pc = "idle"
    /\ ops' = ops + 1
    /\ timers' = timers - 1
    /\ h' = [h EXCEPT ![BotProc] =
               IF store.status # ACTIVE \/ ~isBotGame(store) THEN Idle
               ELSE [pc |-> "processGuess"]]
    /\ emit(<<>>)
    /\ UNCHANGED <<store, winLock, now, userElo, activeGames, playerSockets,
                   socketPlayers, oks, winners,
                      lockLog, farVars>>

\* GameService.processGuess(gameId, botId, guess) up to its first await after the load
BotProcessGuess(raw) ==
    LET found == getGame(GameId)
        botId == botOf(store)
    IN /\ h[BotProc].pc = "processGuess"
       /\ IF guessError(found, botId, raw) # NULL
          THEN /\ h' = [h EXCEPT ![BotProc] = Idle]
               /\ UNCHANGED now
          ELSE /\ h' = [h EXCEPT ![BotProc] =
                          processGuessLocals("bot", found[1], botId, raw, now)]
               /\ now' = now + 1
       /\ emit(<<>>)
       /\ UNCHANGED <<store, winLock, userElo, timers, activeGames, playerSockets,
                      socketPlayers, ops, oks, winners,
                      lockLog, farVars>>

-----------------------------------------------------------------------------
(* the expiry of the win lock: SET ... EX 60. Nothing in the code bounds how long a handler *)
(* waits between two commands, so the key may expire between any two steps.                *)

expireKey ==
    /\ winLock # <<>>
    /\ winLock' = <<>>
    /\ emit(<<>>)
    /\ UNCHANGED <<store, now, h, userElo, timers, activeGames, playerSockets,
                   socketPlayers, ops, oks, winners>>

LockExpire ==
    /\ expireKey
    /\ UNCHANGED <<lockLog, farVars>>

-----------------------------------------------------------------------------

\* the steps of processGuess and of its callers, for guesses that arrive on the given sockets
GuessSteps(limit, sockets, gameIds, raws) ==
    \/ \E s \in sockets, gameId \in gameIds, raw \in raws : GuessEvent(limit, s, gameId, raw)
    \/ \E pr \in Procs : AcquireWinLock(pr)
    \/ \E pr \in Procs : GetWinner(pr)
    \/ \E pr \in Procs : SetGameState(pr)
    \/ \E pr \in Procs : GetGame(pr)
    \/ \E pr \in Procs : EloUpdate(pr)
    \/ TimerFire(limit)
    \/ \E raw \in BotGuesses : BotProcessGuess(raw)
    \/ LockExpire

ForfeitSteps(limit, sockets, gameIds) ==
    \/ \E s \in sockets, gameId \in gameIds : ForfeitEvent(limit, s, gameId)
    \/ \E s \in sockets : ForfeitSave(s)

\* the two players of the match send well-formed guesses and forfeits for it
PlayerSocketIds == {"s1", "s2"}
PlayedGuesses == {<<"c", "r", "a", "n", "e">>, SLATE}

\* guesses only
NextGuess == GuessSteps(MaxOps, PlayerSocketIds, {GameId}, PlayedGuesses)

SpecGuess == Init /\ [][NextGuess]_vars

\* guesses and forfeits
Next ==
    \/ GuessSteps(MaxOps, PlayerSocketIds, {GameId}, PlayedGuesses)
    \/ ForfeitSteps(MaxOps, PlayerSocketIds, {GameId})

Spec == Init /\ [][Next]_vars

\* any registered user sends any guess or forfeit for any game id
NextInput ==
    \/ GuessSteps(MaxInputOps, Sockets, GameIds, RawGuesses)
    \/ ForfeitSteps(MaxInputOps, Sockets, GameIds)

\* the matches the input checks start from: a human match and a bot match, new or with the
\* first player one guess from the limit
InitInput ==
    \E bot \in BOOLEAN, n1 \in PriorCounts :
        InitMatch(bot, 1200, n1, IF bot THEN n1 ELSE 0)

SpecInput == InitInput /\ [][NextInput]_vars

-----------------------------------------------------------------------------
(* The win lock on its own: any user calls acquireWinLock directly, and the key expires *)

Expired == [playerId |-> NULL, ok |-> FALSE]

AcquireCall(playerId) ==
    /\ Len(lockLog) < MaxLockCalls
    /\ winLock' = acquireWinLock(winLock, playerId, now)
    /\ now' = now + 1
    /\ lockLog' = Append(lockLog, [playerId |-> playerId, ok |-> wonLock(winLock)])
    /\ UNCHANGED <<store, h, emitted, userElo, timers, activeGames, playerSockets,
                   socketPlayers, ops, oks, winners, farVars>>

KeyExpires ==
    /\ Len(lockLog) < MaxLockCalls
    /\ expireKey
    /\ lockLog' = Append(lockLog, Expired)
    /\ UNCHANGED farVars

InitLock == InitMatch(FALSE, 1200, 0, 0)

NextLock ==
    \/ \E playerId \in Users : AcquireCall(playerId)
    \/ KeyExpires

SpecLock == InitLock /\ [][NextLock]_vars

-----------------------------------------------------------------------------
(* the connection handlers: connection, register, disconnect and its grace timer, *)
(* game:rejoin                                                                     *)

MaxSessionOps == 4      \* register, disconnect, game:rejoin and game:guess events under SpecSession

\* socketAuthMiddleware and io.on('connection'): user is the decoded token, or null
Connect(s, user) ==
    /\ conn[s].state = "fresh"
    /\ conn' = [conn EXCEPT ![s] = Open(user, NULL, NULL)]
    /\ emit(<<>>)
    /\ UNCHANGED <<store, winLock, now, h, userElo, timers, activeGames, playerSockets,
                   socketPlayers, ops, oks, winners, lockLog, grace, queueVars, pure, db>>

\* socket.on('register') with a payload that has an id
Register(limit, s, id) ==
    /\ ops < limit
    /\ conn[s].state = "open"
    /\ ops' = ops + 1
    /\ playerSockets' = [playerSockets EXCEPT ![id] = s]
    /\ socketPlayers' = [socketPlayers EXCEPT ![s] = id]
    /\ conn' = [conn EXCEPT ![s].userData = id]
    /\ emit(<<>>)
    /\ UNCHANGED <<store, winLock, now, h, userElo, timers, activeGames, oks, winners,
                   lockLog, grace, queueVars, pure, db>>

\* cancelMatchmaking up to its await: clearTimeout and activeSearches.delete
cancelSearch(srch, playerId) == [srch EXCEPT ![playerId] = <<>>]

\* removeFromMatchmakingQueue: the sorted set and the player's key after it
removedFromQueue(q, keys, playerId) ==
    IF keys[playerId] = <<>> THEN q ELSE q \ {keys[playerId][1]}
removedKey(keys, playerId) == [keys EXCEPT ![playerId] = <<>>]

\* socket.on('disconnect') up to the await inside cancelMatchmaking
Disconnect(limit, s) ==
    LET playerId == socketPlayers[s]
    IN /\ ops < limit
       /\ conn[s].state = "open"
       /\ ops' = ops + 1
       /\ conn' = [conn EXCEPT ![s].state = "closed"]
       /\ IF playerId = NULL
          THEN UNCHANGED <<grace, searches, phase>>
          ELSE /\ grace' = [grace EXCEPT ![s] = [pc |-> "cancelMatchmaking",
                                                  playerId |-> playerId,
                                                  rejoined |-> FALSE]]
               /\ searches' = cancelSearch(searches, playerId)
               /\ phase' = [phase EXCEPT ![playerId] =
                               IF @ = "searching" THEN "disconnected" ELSE @]
       /\ emit(<<>>)
       /\ UNCHANGED <<store, winLock, now, h, userElo, timers, activeGames, playerSockets,
                      socketPlayers, oks, winners, lockLog, queue, playerKey, attempts,
                      retry, started, pure, db>>

\* socket.on('disconnect') after await cancelMatchmaking: the grace timer is set when the
\* socket has a gameId, then the maps lose the player and the socket
DisconnectResume(s) ==
    LET g == grace[s]
        gameId == conn[s].gameId
    IN /\ g.pc = "cancelMatchmaking"
       /\ queue' = removedFromQueue(queue, playerKey, g.playerId)
       /\ playerKey' = removedKey(playerKey, g.playerId)
       /\ grace' = [grace EXCEPT ![s] =
                      IF gameId = NULL THEN [pc |-> "done"]
                      ELSE [pc |-> "pending", playerId |-> g.playerId, gameId |-> gameId,
                            rejoined |-> g.rejoined]]
       /\ playerSockets' = [playerSockets EXCEPT ![g.playerId] = NULL]
       /\ socketPlayers' = [socketPlayers EXCEPT ![s] = NULL]
       /\ emit(<<>>)
       /\ UNCHANGED <<store, winLock, now, h, userElo, timers, activeGames, ops, oks,
                      winners, lockLog, conn, searches, attempts, retry, started, phase,
                      pure, db>>

\* the grace timer's check of the player's current socket: "Player reconnected"
reconnected(playerId, gameId) ==
    LET currentSocketId == playerSockets[playerId]
    IN /\ currentSocketId # NULL
       /\ conn[currentSocketId].state = "open"
       /\ conn[currentSocketId].gameId = gameId

\* the player has a connected socket that is in the match
hasHandle(playerId, gameId) ==
    \E b \in Sockets : /\ conn[b].state = "open"
                       /\ conn[b].userData = playerId
                       /\ conn[b].gameId = gameId

\* the callback of the 10 s timer up to its await of getGame
GraceFire(s) ==
    LET g == grace[s]
    IN /\ g.pc = "pending"
       /\ grace' = [grace EXCEPT ![s] =
                      IF reconnected(g.playerId, g.gameId) THEN [pc |-> "done"]
                      ELSE [pc |-> "getGame", playerId |-> g.playerId, gameId |-> g.gameId,
                            rejoined |-> g.rejoined,
                            handle |-> hasHandle(g.playerId, g.gameId)]]
       /\ emit(<<>>)
       /\ UNCHANGED <<store, winLock, now, h, userElo, timers, activeGames, playerSockets,
                      socketPlayers, ops, oks, winners, lockLog, conn, queueVars, pure, db>>

\* the timer callback after getGame: forfeitGame is called for an active game without a bot
GraceGetGame(s) ==
    LET g == grace[s]
        game == getGame(g.gameId)
    IN /\ g.pc = "getGame"
       /\ grace' = [grace EXCEPT ![s] =
                      IF game # <<>> /\ game[1].status = ACTIVE /\ ~isBotGame(game[1])
                      THEN [g EXCEPT !.pc = "forfeitGame"]
                      ELSE [pc |-> "done"]]
       /\ emit(<<>>)
       /\ UNCHANGED <<store, winLock, now, h, userElo, timers, activeGames, playerSockets,
                      socketPlayers, ops, oks, winners, lockLog, conn, queueVars, pure, db>>

\* forfeitGame called by the timer callback, up to its await of setGameState
GraceForfeitLoad(s) ==
    LET g == grace[s]
        found == getGame(g.gameId)
    IN /\ g.pc = "forfeitGame"
       /\ IF found = <<>> \/ found[1].status # ACTIVE
          THEN /\ grace' = [grace EXCEPT ![s] = [pc |-> "done"]]
               /\ UNCHANGED now
          ELSE /\ grace' = [grace EXCEPT ![s] =
                             [pc |-> "forfeitSave", playerId |-> g.playerId,
                              gameId |-> g.gameId, rejoined |-> g.rejoined,
                              handle |-> g.handle,
                              game |-> forfeited(found[1], g.playerId, now)]]
               /\ now' = now + 1
       /\ emit(<<>>)
       /\ UNCHANGED <<store, winLock, h, userElo, timers, activeGames, playerSockets,
                      socketPlayers, ops, oks, winners, lockLog, conn, queueVars, pure, db>>

\* await setGameState in forfeitGame, then notifyGameEnd(io, forfeitedGame, 'forfeit')
GraceForfeitSave(s) ==
    LET g == grace[s]
    IN /\ g.pc = "forfeitSave"
       /\ store' = g.game
       /\ emit(notifyGameEnd(g.game, "forfeit", NoElo))
       /\ grace' = [grace EXCEPT ![s] = [pc |-> "forfeited", playerId |-> g.playerId,
                                          rejoined |-> g.rejoined, handle |-> g.handle]]
       /\ recordWinner
       /\ UNCHANGED <<winLock, now, h, userElo, timers, activeGames, playerSockets,
                      socketPlayers, ops, oks, lockLog, conn, queueVars, pure, db>>

\* the guesses of the player and of the opponent as game:rejoined carries them
ownGuess(rec) == [word |-> rec.word, colors |-> colorsOf(rec), guessNumber |-> rec.guessNumber]
maskedGuess(rec) == [colors |-> colorsOf(rec), guessNumber |-> rec.guessNumber]

rejoinedEvent_unmasked(s, game, playerId) ==
    LET playerData == game.players[playerId]
        opponentData == game.players[OpponentId(playerId)]
    IN [to |-> s, ev |-> "game:rejoined", gameId |-> game.id,
        guesses |-> [k \in DOMAIN playerData.guesses |-> ownGuess(playerData.guesses[k])],
        opponentProgress |->
            [k \in DOMAIN opponentData.guesses |-> ownGuess(opponentData.guesses[k])],
        opponent |-> [elo |-> opponentData.elo, isBot |-> opponentData.isBot]]

rejoinedEvent(s, game, playerId) ==
    LET playerData == game.players[playerId]
        opponentData == game.players[OpponentId(playerId)]
    IN [to |-> s, ev |-> "game:rejoined", gameId |-> game.id,
        guesses |-> [k \in DOMAIN playerData.guesses |-> ownGuess(playerData.guesses[k])],
        opponentProgress |->
            [k \in DOMAIN opponentData.guesses |-> maskedGuess(opponentData.guesses[k])],
        opponent |-> [elo |-> opponentData.elo, isBot |-> opponentData.isBot]]

\* socket.on('game:rejoin') up to its await of getGame
Rejoin(limit, s, gameId) ==
    LET playerId == conn[s].userData
    IN /\ ops < limit
       /\ conn[s].state = "open"
       /\ h[s].pc = "idle"
       /\ ops' = ops + 1
       /\ IF playerId = NULL
          THEN /\ emit(<<[to |-> s, ev |-> "game:notfound"]>>)
               /\ UNCHANGED h
          ELSE /\ h' = [h EXCEPT ![s] = [pc |-> "rejoin", playerId |-> playerId,
                                          gameId |-> gameId]]
               /\ emit(<<>>)
       /\ UNCHANGED <<store, winLock, now, userElo, timers, activeGames, playerSockets,
                      socketPlayers, oks, winners, lockLog, farVars>>

\* game:rejoin after getGame: the checks, the re-association of the socket, the reply, and
\* the timer that keeps the bot playing
RejoinReply(s) ==
    LET l == h[s]
        found == getGame(l.gameId)
        ok == /\ found # <<>>
              /\ found[1].status = ACTIVE
              /\ l.playerId \in DOMAIN found[1].players
    IN /\ l.pc = "rejoin"
       /\ h' = [h EXCEPT ![s] = Idle]
       /\ IF ~ok
          THEN /\ emit(<<[to |-> s, ev |-> "game:notfound"]>>)
               /\ UNCHANGED <<conn, playerSockets, socketPlayers, timers, grace>>
          ELSE /\ conn' = [conn EXCEPT ![s].gameId = l.gameId]
               /\ playerSockets' = [playerSockets EXCEPT ![l.playerId] = s]
               /\ socketPlayers' = [socketPlayers EXCEPT ![s] = l.playerId]
               /\ emit(<<rejoinedEvent(s, found[1], l.playerId)>>)
               /\ timers' = IF /\ activeGames
                               /\ isBotGame(found[1])
                               /\ found[1].players[OpponentId(l.playerId)].isBot
                               /\ Len(found[1].players[OpponentId(l.playerId)].guesses) < 6
                            THEN timers + 1 ELSE timers
               \* history: the disconnects of this player that this rejoin follows
               /\ grace' = [b \in Sockets |->
                              IF /\ grace[b].pc \in {"cancelMatchmaking", "pending"}
                                 /\ grace[b].playerId = l.playerId
                              THEN [grace[b] EXCEPT !.rejoined = TRUE]
                              ELSE grace[b]]
       /\ UNCHANGED <<store, winLock, now, userElo, activeGames, ops, oks, winners,
                      lockLog, queueVars, pure, db>>

\* a started match whose players are connected and registered, and a socket id for a
\* connection to come
InitSession ==
    \E bot \in BOOLEAN :
        /\ store = createGame(1200, 1200, bot, 1, 1)
        /\ winLock = <<>>
        /\ now = 3
        /\ h = [pr \in Procs |-> Idle]
        /\ emitted = <<>>
        /\ userElo = [u \in Users |-> 1200]
        /\ timers = 0
        /\ activeGames = TRUE
        /\ playerSockets = [u \in Users |->
                              IF u = P1 THEN "s1" ELSE IF u = P2 /\ ~bot THEN "s2" ELSE NULL]
        /\ socketPlayers = [s \in Sockets |->
                              IF s = "s1" THEN P1 ELSE IF s = "s2" /\ ~bot THEN P2 ELSE NULL]
        /\ ops = 0
        /\ oks = [p \in Players |-> 1]
        /\ winners = {}
        /\ lockLog = <<>>
        /\ InitFar

OpenSockets == {s \in Sockets : conn[s].state = "open"}
Unregistered == {s \in Sockets : conn[s].userData = NULL}
SessionIds == {P1}
GuessingSockets == {"s2"}

SessionSteps(limit) ==
    \/ \E s \in Sockets, user \in {P1, NULL} : Connect(s, user)
    \/ \E s \in Unregistered, id \in SessionIds : Register(limit, s, id)
    \/ \E s \in Sockets : Disconnect(limit, s)
    \/ \E s \in Sockets : DisconnectResume(s)
    \/ \E s \in Sockets : GraceFire(s)
    \/ \E s \in Sockets : GraceGetGame(s)
    \/ \E s \in Sockets : GraceForfeitLoad(s)
    \/ \E s \in Sockets : GraceForfeitSave(s)
    \/ \E s \in Sockets, gameId \in GameIds : Rejoin(limit, s, gameId)
    \/ \E s \in Sockets : RejoinReply(s)

\* the connection events of P1 and of an unauthenticated connection, while P2 guesses
NextSession ==
    \/ SessionSteps(MaxSessionOps)
    \/ \E s \in GuessingSockets \cap OpenSockets : GuessEvent(MaxSessionOps, s, GameId, SLATE)
    \/ \E pr \in Procs : SetGameState(pr)
    \/ \E pr \in Procs : GetGame(pr)

SpecSession == InitSession /\ [][NextSession]_vars

-----------------------------------------------------------------------------
(* MatchmakingService and the matchmaking queue of the Redis store.  A call in flight is a
   record of attempts; its stage names the Redis command it awaits, which runs when the
   call takes its next step. *)

MATCHMAKING_TIMEOUT == 15000
INITIAL_ELO_RANGE == 100
MAX_ELO_RANGE == 400
RETRY_DELAY == 2000

MaxMatchOps == 2    \* socket events handled per run under SpecQueue
MaxTicks == 3       \* steps of the clock per run under SpecQueue

\* Date.now() in ms: the clock advances in steps of 5 s
time == now * (5 * 1000)

Min(a, b) == IF a < b THEN a ELSE b
Abs(a) == IF a < 0 THEN -a ELSE a

\* the rating a registered user searches with
MatchElo == [u \in Users |-> CASE u = P1 -> 1200 [] u = P2 -> 1350 [] OTHER -> 1275]

currentRange_uncapped(elapsed) ==
    INITIAL_ELO_RANGE * MATCHMAKING_TIMEOUT + elapsed * (MAX_ELO_RANGE - INITIAL_ELO_RANGE)

\* tryFindMatch: currentRange for a search that has lasted elapsed ms, multiplied by
\* MATCHMAKING_TIMEOUT so that it is an integer
currentRange(elapsed) ==
    LET rangeExpansion == Min((MAX_ELO_RANGE - INITIAL_ELO_RANGE) * MATCHMAKING_TIMEOUT,
                              elapsed * (MAX_ELO_RANGE - INITIAL_ELO_RANGE))
    IN INITIAL_ELO_RANGE * MATCHMAKING_TIMEOUT + rangeExpansion

\* tryFindMatch: the elapsed time of the player's search, 0 when activeSearches has none
elapsedOf(playerId) ==
    IF searches[playerId] # <<>> THEN time - searches[playerId][1].startTime ELSE 0

\* the decimal digits of a number, as JSON.stringify writes it
RECURSIVE digits(_)
digits(n) == IF n < 10 THEN <<n>> ELSE Append(digits(n \div 10), n % 10)

RECURSIVE lexLess(_, _)
lexLess(a, b) ==
    IF b = <<>> THEN FALSE
    ELSE IF a = <<>> THEN TRUE
    ELSE IF Head(a) # Head(b) THEN Head(a) < Head(b)
    ELSE lexLess(Tail(a), Tail(b))

IndexOf(seq, x) == CHOOSE i \in DOMAIN seq : seq[i] = x
UserOrder == <<P1, P2, P3>>

\* the order of the sorted set: by score (the rating), then by member, the JSON text of
\* {playerId, elo, socketId, timestamp}
zsetBefore(a, b) ==
    IF a.elo # b.elo THEN a.elo < b.elo
    ELSE IF a.playerId # b.playerId
    THEN IndexOf(UserOrder, a.playerId) < IndexOf(UserOrder, b.playerId)
    ELSE IF a.socketId # b.socketId
    THEN IndexOf(SocketOrder, a.socketId) < IndexOf(SocketOrder, b.socketId)
    ELSE lexLess(digits(a.timestamp), digits(b.timestamp))

\* redis.js findMatch with the range multiplied by MATCHMAKING_TIMEOUT: the first member
\* within the range whose playerId is not the searcher's, or null
findMatch(q, playerId, elo, range) ==
    LET candidates == {e \in q : /\ Abs(e.elo - elo) * MATCHMAKING_TIMEOUT <= range
                                /\ e.playerId # playerId}
    IN IF candidates = {} THEN <<>>
       ELSE <<CHOOSE e \in candidates : \A o \in candidates \ {e} : zsetBefore(e, o)>>

\* addToMatchmakingQueue: the member it adds
queueData(playerId, elo, socketId, timestamp) ==
    [playerId |-> playerId, elo |-> elo, socketId |-> socketId, timestamp |-> timestamp]

createBotOpponent(playerElo) ==
    LET difficulty == botDifficultyFor(playerElo)
        botElo == CASE difficulty = "easy" -> 800
                    [] difficulty = "medium" -> 1100
                    [] difficulty = "hard" -> 1400
                    [] OTHER -> 1800
    IN [id |-> "bot", elo |-> botElo, isBot |-> TRUE, botDifficulty |-> difficulty]

\* a call in flight: kind is the function that was called, stage the command it awaits,
\* target the player removeFromMatchmakingQueue is removing, after what follows the removal
call(kind, player, s, stage, target, after, data, range, match) ==
    [kind |-> kind, player |-> player, socket |-> s, stage |-> stage, target |-> target,
     after |-> after, data |-> data, range |-> range, match |-> match]

\* the commands are sent on one connection: the store runs them, and the calls that await
\* them resume, in the order in which they were sent
awaits(stage) == attempts # <<>> /\ Head(attempts).stage = stage
resumed == Tail(attempts)

farFromQueue == <<store, winLock, h, userElo, timers, playerSockets, socketPlayers, oks,
                  winners, lockLog, grace, pure, db>>

\* socket.on('matchmaking:start') and startMatchmaking up to its first await: the
\* cancelMatchmaking it does not await has sent its GET, addToMatchmakingQueue its ZADD
MatchmakingStart(limit, s, data) ==
    LET player == IF conn[s].userData # NULL
                  THEN <<[id |-> conn[s].userData, elo |-> MatchElo[conn[s].userData]]>>
                  ELSE data
    IN /\ ops < limit
       /\ conn[s].state = "open"
       /\ ops' = ops + 1
       /\ IF player = <<>>
          THEN /\ emit(<<[to |-> s, ev |-> "error", message |-> "Not authenticated"]>>)
               /\ UNCHANGED <<searches, attempts, phase>>
          ELSE /\ \A i \in DOMAIN attempts :
                     attempts[i].kind = "startMatchmaking" =>
                         attempts[i].player.id # player[1].id
               /\ emit(<<[to |-> s, ev |-> "matchmaking:searching"]>>)
               /\ searches' = cancelSearch(searches, player[1].id)
               /\ attempts' = attempts \o
                      <<call("cancelMatchmaking", player[1], s, "get", player[1].id, "end",
                             <<>>, 0, <<>>),
                        call("startMatchmaking", player[1], s, "zadd", NULL, "end",
                             <<queueData(player[1].id, player[1].elo, s, time)>>, 0, <<>>)>>
               /\ phase' = [phase EXCEPT ![player[1].id] = "searching"]
       /\ UNCHANGED <<farFromQueue, now, activeGames, conn, queue, playerKey, retry, started>>

\* socket.on('matchmaking:cancel') up to the await inside cancelMatchmaking
MatchmakingCancel(limit, s) ==
    LET playerId == conn[s].userData
    IN /\ ops < limit
       /\ conn[s].state = "open"
       /\ ops' = ops + 1
       /\ emit(<<>>)
       /\ IF playerId = NULL
          THEN UNCHANGED <<searches, attempts, phase>>
          ELSE /\ searches' = cancelSearch(searches, playerId)
               /\ attempts' = Append(attempts,
                      call("matchmaking:cancel", [id |-> playerId, elo |-> MatchElo[playerId]],
                           s, "get", playerId, "cancelled", <<>>, 0, <<>>))
               /\ phase' = [phase EXCEPT ![playerId] =
                               IF @ = "searching" THEN "cancelled" ELSE @]
       /\ UNCHANGED <<farFromQueue, now, activeGames, conn, queue, playerKey, retry, started>>

\* addToMatchmakingQueue: redis.zadd
Zadd ==
    LET t == Head(attempts)
    IN /\ awaits("zadd")
       /\ queue' = queue \cup {t.data[1]}
       /\ attempts' = Append(resumed, [t EXCEPT !.stage = "setex"])
       /\ emit(<<>>)
       /\ UNCHANGED <<farFromQueue, now, ops, activeGames, conn, playerKey, searches, retry,
                      started, phase>>

\* addToMatchmakingQueue: redis.setex, and tryFindMatch up to its await of findMatch
Setex ==
    LET t == Head(attempts)
    IN /\ awaits("setex")
       /\ playerKey' = [playerKey EXCEPT ![t.player.id] = t.data]
       /\ attempts' = Append(resumed,
              [t EXCEPT !.stage = "findMatch", !.range = currentRange(elapsedOf(t.player.id))])
       /\ emit(<<>>)
       /\ UNCHANGED <<farFromQueue, now, ops, activeGames, conn, queue, searches, retry,
                      started, phase>>

\* await findMatch in tryFindMatch, and its caller up to the next await: startMatchmaking
\* sets the bot timeout and the search and schedules an attempt when there is no match;
\* the attempt of scheduleMatchAttempt clears its search when there is one
FindMatch ==
    LET t == Head(attempts)
        id == t.player.id
        match == findMatch(queue, id, t.player.elo, t.range)
        removal == [t EXCEPT !.stage = "get", !.target = id, !.after = "removeMatch",
                             !.match = match]
    IN /\ awaits("findMatch")
       /\ IF match # <<>>
          THEN /\ attempts' = Append(resumed, removal)
               /\ searches' = IF t.kind = "scheduleMatchAttempt"
                              THEN cancelSearch(searches, id) ELSE searches
               /\ UNCHANGED retry
          ELSE /\ attempts' = resumed
               /\ searches' = IF t.kind = "startMatchmaking"
                              THEN [searches EXCEPT ![id] =
                                      <<[player |-> t.player, socket |-> t.socket,
                                         startTime |-> time]>>]
                              ELSE searches
               /\ retry' = IF searches'[id] # <<>>
                           THEN [retry EXCEPT ![id] = @ \cup {time}] ELSE retry
       /\ emit(<<>>)
       /\ UNCHANGED <<farFromQueue, now, ops, activeGames, conn, queue, playerKey, started,
                      phase>>

\* the connections that have disconnected and whose disconnect handler has run
vanished == {s \in Sockets : conn[s].state = "closed" /\ grace[s].pc # "cancelMatchmaking"}

\* startGame: the match it creates is recorded with its players, with how their searches
\* had gone when it was called, with the players who had an entry in the queue and with
\* the connections that had vanished then
startGame(s, player1, player2, isBot) ==
    /\ started' = Append(started,
                         [socket |-> s, player1 |-> player1.id, elo |-> player1.elo,
                          player2 |-> player2, isBot |-> isBot,
                          phase1 |-> phase[player1.id],
                          phase2 |-> IF isBot THEN "bot" ELSE phase[player2.playerId],
                          queued |-> {e.playerId : e \in queue'},
                          vanished |-> vanished])
    /\ conn' = [conn EXCEPT ![s].gameId = GameId]
    /\ activeGames' = TRUE
    /\ emit(<<[to |-> s, ev |-> "game:start", gameId |-> GameId,
               opponent |-> [elo |-> player2.elo, isBot |-> isBot]]>>)

\* what follows when removeFromMatchmakingQueue returns to its caller
Returned(t) ==
    CASE t.after = "end" ->
           /\ attempts' = resumed
           /\ emit(<<>>)
           /\ UNCHANGED <<searches, started, phase, conn, activeGames>>
      [] t.after = "cancelled" ->
           /\ attempts' = resumed
           /\ emit(<<[to |-> t.socket, ev |-> "matchmaking:cancelled"]>>)
           /\ UNCHANGED <<searches, started, phase, conn, activeGames>>
      [] t.after = "removeMatch" ->
           /\ attempts' = Append(resumed,
                  [t EXCEPT !.stage = "get", !.target = t.match[1].playerId,
                            !.after = "onMatchFound"])
           /\ emit(<<>>)
           /\ UNCHANGED <<searches, started, phase, conn, activeGames>>
      [] t.after = "onMatchFound" ->
           /\ attempts' = resumed
           /\ searches' = IF t.kind = "scheduleMatchAttempt"
                          THEN cancelSearch(searches, t.match[1].playerId) ELSE searches
           /\ startGame(t.socket, t.player, t.match[1], FALSE)
           /\ phase' = [phase EXCEPT ![t.player.id] = "paired",
                                     ![t.match[1].playerId] = "paired"]
      [] t.after = "onBotSpawn" ->
           /\ attempts' = resumed
           /\ startGame(t.socket, t.player, createBotOpponent(t.player.elo), TRUE)
           /\ phase' = [phase EXCEPT ![t.player.id] = "bot"]
           /\ UNCHANGED searches

\* removeFromMatchmakingQueue: redis.get of the player's key
RemoveGet ==
    LET t == Head(attempts)
    IN /\ awaits("get")
       /\ UNCHANGED <<farFromQueue, now, ops, queue, playerKey, retry>>
       /\ IF playerKey[t.target] = <<>>
          THEN Returned(t)
          ELSE /\ attempts' = Append(resumed,
                      [t EXCEPT !.stage = "zrem", !.data = playerKey[t.target]])
               /\ emit(<<>>)
               /\ UNCHANGED <<searches, started, phase, conn, activeGames>>

\* removeFromMatchmakingQueue: redis.zrem of the value it read
RemoveZrem ==
    LET t == Head(attempts)
    IN /\ awaits("zrem")
       /\ queue' = queue \ {t.data[1]}
       /\ attempts' = Append(resumed, [t EXCEPT !.stage = "del"])
       /\ emit(<<>>)
       /\ UNCHANGED <<farFromQueue, now, ops, activeGames, conn, playerKey, searches, retry,
                      started, phase>>

\* removeFromMatchmakingQueue: redis.del of the player's key
RemoveDel ==
    LET t == Head(attempts)
    IN /\ awaits("del")
       /\ playerKey' = [playerKey EXCEPT ![t.target] = <<>>]
       /\ UNCHANGED <<farFromQueue, now, ops, queue, retry>>
       /\ Returned(t)

\* the 2 s timer of scheduleMatchAttempt, up to the await inside tryFindMatch
RetryFire(playerId) ==
    \E set \in retry[playerId] :
        /\ time - set >= RETRY_DELAY
        /\ retry' = [retry EXCEPT ![playerId] = @ \ {set}]
        /\ attempts' = IF searches[playerId] = <<>> THEN attempts
                       ELSE Append(attempts,
                                call("scheduleMatchAttempt", searches[playerId][1].player,
                                     searches[playerId][1].socket, "findMatch", NULL, "end",
                                     <<>>, currentRange(elapsedOf(playerId)), <<>>))
        /\ emit(<<>>)
        /\ UNCHANGED <<farFromQueue, now, ops, activeGames, conn, queue, playerKey, searches,
                       started, phase>>

\* the bot timeout of startMatchmaking, up to the await inside cancelMatchmaking
BotTimeout(playerId) ==
    /\ searches[playerId] # <<>>
    /\ time - searches[playerId][1].startTime >= MATCHMAKING_TIMEOUT
    /\ searches' = cancelSearch(searches, playerId)
    /\ attempts' = Append(attempts,
           call("botTimeout", searches[playerId][1].player, searches[playerId][1].socket,
                "get", playerId, "onBotSpawn", <<>>, 0, <<>>))
    /\ emit(<<>>)
    /\ UNCHANGED <<farFromQueue, now, ops, activeGames, conn, queue, playerKey, retry,
                   started, phase>>

\* Date.now() advances
Tick(limit) ==
    /\ now < limit
    /\ now' = now + 1
    /\ emit(<<>>)
    /\ UNCHANGED <<farFromQueue, ops, activeGames, conn, queueVars>>

\* no match is being played; P1 and P2 are connected and registered, and a third
\* connection has neither a token nor sent register
InitQueue ==
    /\ store = [createGame(1200, 1200, TRUE, 0, 0) EXCEPT !.status = FINISHED,
                                                          !.winner = P1, !.endTime = 0]
    /\ winLock = <<>>
    /\ now = 0
    /\ h = [pr \in Procs |-> Idle]
    /\ emitted = <<>>
    /\ userElo = [u \in Users |-> MatchElo[u]]
    /\ timers = 0
    /\ activeGames = FALSE
    /\ playerSockets = [u \in Users |-> IF u = P3 THEN NULL ELSE SocketOf(u)]
    /\ socketPlayers = [s \in Sockets |-> IF s = SocketOf(P3) THEN NULL
                                          ELSE CHOOSE u \in Users : SocketOf(u) = s]
    /\ ops = 0
    /\ oks = [p \in Players |-> 0]
    /\ winners = {P1}
    /\ lockLog = <<>>
    /\ conn = [s \in Sockets |-> Open(socketPlayers[s], socketPlayers[s], NULL)]
    /\ grace = [s \in Sockets |-> NoGrace]
    /\ queue = {}
    /\ playerKey = [u \in Users |-> <<>>]
    /\ searches = [u \in Users |-> <<>>]
    /\ attempts = <<>>
    /\ retry = [u \in Users |-> {}]
    /\ started = <<>>
    /\ phase = [u \in Users |-> "none"]
    /\ pure = <<>>
    /\ db = NoRows

\* the payload of matchmaking:start that a connection without userData sends
StartData == {<<>>, <<[id |-> P3, elo |-> MatchElo[P3]]>>}

NextQueue ==
    \/ \E s \in Sockets, data \in StartData : MatchmakingStart(MaxMatchOps, s, data)
    \/ \E s \in Sockets : MatchmakingCancel(MaxMatchOps, s)
    \/ \E s \in Unregistered : Register(MaxMatchOps, s, P3)
    \/ \E s \in Sockets : Disconnect(MaxMatchOps, s)
    \/ \E s \in Sockets : DisconnectResume(s)
    \/ Zadd
    \/ Setex
    \/ FindMatch
    \/ RemoveGet
    \/ RemoveZrem
    \/ RemoveDel
    \/ \E u \in Users : RetryFire(u)
    \/ \E u \in Users : BotTimeout(u)
    \/ Tick(MaxTicks)

SpecQueue == InitQueue /\ [][NextQueue]_vars

-----------------------------------------------------------------------------
(* One connection that searches alone, with a rating on either side of each threshold of
   createBotOpponent *)

MaxBotOps == 2
MaxBotTicks == 4

BotData == {<<[id |-> P3, elo |-> r]>> : r \in {899, 900, 1199, 1200, 1499, 1500}}

NextBot ==
    \/ \E data \in BotData : MatchmakingStart(MaxBotOps, SocketOf(P3), data)
    \/ Zadd
    \/ Setex
    \/ FindMatch
    \/ RemoveGet
    \/ RemoveZrem
    \/ RemoveDel
    \/ RetryFire(P3)
    \/ BotTimeout(P3)
    \/ Tick(MaxBotTicks)

SpecBot == InitQueue /\ [][NextBot]_vars

-----------------------------------------------------------------------------
(* tryFindMatch on its own: the attempts of one search of P1, at growing elapsed times, over
   queues that hold P1's entry and entries of P2 and P3 *)

MaxBandSteps == 8

ElapsedTimes == {k * 2500 : k \in 0..MaxBandSteps}
BandRatings == {799, 800, 1099, 1100, 1300, 1301, 1600, 1601}
BandQueues ==
    {{queueData(P1, MatchElo[P1], SocketOf(P1), 0)} \cup others :
        others \in {{}} \cup {{queueData(P2, r, SocketOf(P2), 0)} : r \in BandRatings}
                        \cup {{queueData(P2, r, SocketOf(P2), 0),
                               queueData(P3, 1200, SocketOf(P3), 0)} : r \in {1100, 1300}}}

\* tryFindMatch(player) of P1 when the search has lasted elapsed ms and the queue holds q
TryFindMatch(elapsed, q) ==
    /\ pure # <<>> => elapsed >= pure[1].elapsed
    /\ pure' = <<[elapsed |-> elapsed,
                  queue |-> q,
                  range |-> currentRange(elapsed),
                  match |-> findMatch(q, P1, MatchElo[P1], currentRange(elapsed)),
                  earlier |-> IF pure = <<>> THEN currentRange(0) ELSE pure[1].range]>>
    /\ UNCHANGED <<store, winLock, now, h, userElo, emitted, timers, activeGames,
                   playerSockets, socketPlayers, ops, oks, winners, lockLog,
                   sessionVars, queueVars, db>>

NextBand == \E elapsed \in ElapsedTimes, q \in BandQueues : TryFindMatch(elapsed, q)

SpecBand == InitQueue /\ [][NextBand]_vars

-----------------------------------------------------------------------------
(* game:rejoin from the players of the match and from a user who is not one of them, before
   and after the match has ended by a forfeit *)

MaxRejoinOps == 4

RejoinIds == {P1, P3}

NextRejoin ==
    \/ \E s \in Sockets, user \in {P1, P3} : Connect(s, user)
    \/ \E s \in Unregistered, id \in RejoinIds : Register(MaxRejoinOps, s, id)
    \/ \E s \in Sockets \ GuessingSockets : Disconnect(MaxRejoinOps, s)
    \/ \E s \in Sockets : DisconnectResume(s)
    \/ \E s \in Sockets, gameId \in GameIds : Rejoin(MaxRejoinOps, s, gameId)
    \/ \E s \in Sockets : RejoinReply(s)
    \/ \E s \in GuessingSockets \cap OpenSockets : ForfeitEvent(MaxRejoinOps, s, GameId)
    \/ \E s \in Sockets : ForfeitSave(s)

SpecRejoin == InitSession /\ [][NextRejoin]_vars

-----------------------------------------------------------------------------
(* What the opponent is sent about a guess, for two runs of one match that differ in the
   words a player guessed *)

MaxMaskGuesses == 2

\* the match of a run: createGame with the target, and the guesses player 2 has made
maskedGame(target, guesses) ==
    [createGame(1200, 1200, FALSE, 0, 0) EXCEPT !.targetWord = target,
                                                !.players[P2].guesses = guesses]

\* what player 1 is sent in a run: game:opponent:guess for the last guess of player 2, and
\* the opponentProgress of game:rejoined
maskedRun(target, guesses) ==
    [guesses |-> guesses,
     event |-> opponentGuessEvent(SocketOf(P1), guesses[Len(guesses)]),
     opponentProgress |->
         rejoinedEvent(SocketOf(P1), maskedGame(target, guesses), P1).opponentProgress]

MaskStart(target) ==
    /\ pure = <<>>
    /\ db = NoRows
    /\ pure' = <<[target |-> target, a |-> <<>>, b |-> <<>>]>>
    /\ UNCHANGED <<store, winLock, now, h, userElo, emitted, timers, activeGames,
                   playerSockets, socketPlayers, ops, oks, winners, lockLog,
                   sessionVars, queueVars, db>>

\* player 2 has a guess accepted: wordA in the first run, wordB in the second
MaskGuess(limit, wordA, wordB) ==
    /\ Len(pure) = 1
    /\ LET r == pure[1]
           n == IF r.a = <<>> THEN 0 ELSE Len(r.a[1].guesses)
           prior(run) == IF run = <<>> THEN <<>> ELSE run[1].guesses
           next(run, word) == Append(prior(run), guessRecord(word, r.target, n + 1, n + 1))
       IN /\ n < limit
          /\ pure' = <<[r EXCEPT !.a = <<maskedRun(r.target, next(r.a, wordA))>>,
                                 !.b = <<maskedRun(r.target, next(r.b, wordB))>>]>>
    /\ UNCHANGED <<store, winLock, now, h, userElo, emitted, timers, activeGames,
                   playerSockets, socketPlayers, ops, oks, winners, lockLog,
                   sessionVars, queueVars, db>>

NextMask ==
    \/ \E target \in Answers : MaskStart(target)
    \/ \E wordA \in ValidGuesses, wordB \in ValidGuesses :
          MaskGuess(MaxMaskGuesses, wordA, wordB)

InitMask == InitMatch(FALSE, 1200, 0, 0)

SpecMask == InitMask /\ [][NextMask]_vars

-----------------------------------------------------------------------------
(* Functions applied on their own: the arguments are drawn at the start, one step applies
   the function and keeps the result in pure *)

allButPure == <<store, winLock, now, h, userElo, emitted, timers, activeGames,
                playerSockets, socketPlayers, ops, oks, winners, lockLog,
                sessionVars, queueVars, db>>

\* the server at rest, with the arguments of the call to come
InitApplied(inputs) ==
    /\ store = [createGame(1200, 1200, TRUE, 0, 0) EXCEPT !.status = FINISHED,
                                                          !.winner = P1, !.endTime = 0]
    /\ winLock = <<>>
    /\ now = 0
    /\ h = [pr \in Procs |-> Idle]
    /\ emitted = <<>>
    /\ userElo = [u \in Users |-> MatchElo[u]]
    /\ timers = 0
    /\ activeGames = FALSE
    /\ playerSockets = [u \in Users |-> NULL]
    /\ socketPlayers = [s \in Sockets |-> NULL]
    /\ ops = 0
    /\ oks = [p \in Players |-> 0]
    /\ winners = {P1}
    /\ lockLog = <<>>
    /\ conn = [s \in Sockets |-> Fresh]
    /\ grace = [s \in Sockets |-> NoGrace]
    /\ queue = {}
    /\ playerKey = [u \in Users |-> <<>>]
    /\ searches = [u \in Users |-> <<>>]
    /\ attempts = <<>>
    /\ retry = [u \in Users |-> {}]
    /\ started = <<>>
    /\ phase = [u \in Users |-> "none"]
    /\ pure \in {<<[args |-> x, done |-> FALSE]>> : x \in inputs}
    /\ db = NoRows

-----------------------------------------------------------------------------
(* evaluateGuess over every guess of a three-letter alphabet against every target of an
   alphabet of AlphabetSize letters, and over the pair ALLOY / LLAMA *)

AlphabetSize == 2

Letters == <<"A", "L", "O", "Y", "M">>
Alphabet == {"A", "L", "O", "Y", "M"}
GuessAlphabet == {"A", "L", "O"}
TargetAlphabet == {Letters[i] : i \in 1..Min(AlphabetSize, Len(Letters))}
ALLOY == <<"A", "L", "L", "O", "Y">>
LLAMA == <<"L", "L", "A", "M", "A">>
EvalPairs ==
    {[guess |-> g, target |-> t] : g \in [1..5 -> GuessAlphabet], t \in [1..5 -> TargetAlphabet]}
        \cup {[guess |-> LLAMA, target |-> ALLOY], [guess |-> ALLOY, target |-> LLAMA]}

\* WordService.evaluateGuess(guess, target) and WordService.isCorrectGuess(guess, target)
EvaluateGuess ==
    /\ ~pure[1].done
    /\ pure' = <<[args |-> pure[1].args,
                  done |-> TRUE,
                  result |-> evaluateGuess(pure[1].args.guess, pure[1].args.target),
                  correct |-> isCorrectGuess(pure[1].args.guess, pure[1].args.target)]>>
    /\ UNCHANGED allButPure

\* second pass of getPattern: a position that is not "G" becomes "Y" with the first target
\* position that is not matched and holds its letter, and that position is matched
RECURSIVE patternYellows(_, _, _, _, _)
patternYellows(i, guessChars, targetChars, matched, result) ==
    IF i > 5 THEN result
    ELSE IF result[i] = "G"
    THEN patternYellows(i + 1, guessChars, targetChars, matched, result)
    ELSE LET js == {j \in 1..5 : ~matched[j] /\ guessChars[i] = targetChars[j]}
         IN IF js = {}
            THEN patternYellows(i + 1, guessChars, targetChars, matched, result)
            ELSE patternYellows(i + 1, guessChars, targetChars,
                                [matched EXCEPT ![CHOOSE j \in js : \A k \in js : j <= k] = TRUE],
                                [result EXCEPT ![i] = "Y"])

\* getPattern with a second pass that does not mark the target positions it has used
getPattern_noMatched(guess, target) ==
    [i \in 1..5 |-> IF guess[i] = target[i] THEN "G"
                    ELSE IF \E j \in 1..5 : guess[j] # target[j] /\ guess[i] = target[j] THEN "Y"
                    ELSE "X"]

\* BotService.getPattern(guess, target): result filled with "X", first pass greens
getPattern(guess, target) ==
    patternYellows(1, guess, target, [i \in 1..5 |-> guess[i] = target[i]],
                   [i \in 1..5 |-> IF guess[i] = target[i] THEN "G" ELSE "X"])

\* BotService.getPattern(guess, target) for the same pair
GetPattern ==
    /\ pure[1].done
    /\ "pattern" \notin DOMAIN pure[1]
    /\ pure' = <<[args |-> pure[1].args,
                  done |-> TRUE,
                  result |-> pure[1].result,
                  correct |-> pure[1].correct,
                  pattern |-> getPattern(pure[1].args.guess, pure[1].args.target)]>>
    /\ UNCHANGED allButPure

NextEval == EvaluateGuess \/ GetPattern

SpecEval == InitApplied(EvalPairs) /\ [][NextEval]_vars

-----------------------------------------------------------------------------
(* BotService: the choice of the bot's next guess, run on its own against each target.
   The dictionaries are cut down to five words; COMMON_WORDS keeps three of its
   five-letter words that are in the cut and its three entries of another length. *)

STAGE == <<"S", "T", "A", "G", "E">>
SHAPE == <<"S", "H", "A", "P", "E">>
HERO == <<"H", "E", "R", "O">>
LIVING == <<"L", "I", "V", "I", "N", "G">>
SHOT == <<"S", "H", "O", "T">>

Range(seq) == {seq[i] : i \in DOMAIN seq}

\* WordService.getAllAnswers() and WordService.getAllValidGuesses() of the bot's runs
getAllAnswers == <<CRANE, PLATE, STAGE, SHAPE>>
getAllValidGuesses == <<SLATE, CRANE, PLATE, STAGE, SHAPE>>

OPTIMAL_FIRST_GUESSES == <<CRANE, SLATE>>
COMMON_WORDS == <<HERO, LIVING, PLATE, SHAPE, SHOT, STAGE>>

Difficulties == {"easy", "medium", "hard", "impossible"}

\* topN: <<>> is null; wasteWordChance: is it set and above zero
DIFFICULTIES(difficulty) ==
    CASE difficulty = "impossible" ->
           [topN |-> <<1>>, useCommonFilter |-> FALSE, minSolveGuess |-> 1,
            noise |-> FALSE, wasteWordChance |-> FALSE]
      [] difficulty = "hard" ->
           [topN |-> <<5>>, useCommonFilter |-> FALSE, minSolveGuess |-> 2,
            noise |-> TRUE, wasteWordChance |-> FALSE]
      [] difficulty = "easy" ->
           [topN |-> <<>>, useCommonFilter |-> TRUE, minSolveGuess |-> 4,
            noise |-> TRUE, wasteWordChance |-> TRUE]
      [] OTHER ->
           [topN |-> <<20>>, useCommonFilter |-> TRUE, minSolveGuess |-> 3,
            noise |-> TRUE, wasteWordChance |-> TRUE]

patternLetter(color) == CASE color = "green" -> "G" [] color = "yellow" -> "Y" [] OTHER -> "X"

matchesConstraints(word, constraints) ==
    \A k \in DOMAIN constraints : getPattern(constraints[k].guess, word) = constraints[k].pattern

filterPossibleAnswers(possibleAnswers, constraints) ==
    LET fits(word) == matchesConstraints(word, constraints)
    IN SelectSeq(possibleAnswers, fits)

RECURSIVE Pow(_, _)
Pow(b, e) == IF e = 0 THEN 1 ELSE b * Pow(b, e - 1)

RECURSIVE Product(_, _)
Product(S, f) ==
    IF S = {} THEN 1
    ELSE LET x == CHOOSE y \in S : TRUE IN f[x] * Product(S \ {x}, f)

\* calculateEntropy(guess, possibleAnswers) orders the guesses as the product of count^count
\* over the patterns orders them in reverse: H = log2(n) - (1/n) log2(product)
entropyRank(guess, possibleAnswers) ==
    LET patterns == {getPattern(guess, possibleAnswers[i]) : i \in DOMAIN possibleAnswers}
        count == [p \in patterns |->
                    Cardinality({i \in DOMAIN possibleAnswers :
                                    getPattern(guess, possibleAnswers[i]) = p})]
    IN Product(patterns, [p \in patterns |-> Pow(count[p], count[p])])

\* getBestGuessesByEntropy: the sets of words that scores.slice(0, topN) can hold. The sort
\* is stable and the candidates begin with filteredAnswers in their order; the sampled words
\* follow in the order they were drawn. With noise any order is taken to be possible.
getBestGuessesByEntropy(possibleAnswers, candidates, topN, noise) ==
    LET better(b, a) ==
            \/ entropyRank(b, possibleAnswers) < entropyRank(a, possibleAnswers)
            \/ /\ entropyRank(b, possibleAnswers) = entropyRank(a, possibleAnswers)
               /\ b \in Range(possibleAnswers)
               /\ \/ a \notin Range(possibleAnswers)
                  \/ IndexOf(possibleAnswers, b) < IndexOf(possibleAnswers, a)
    IN IF Cardinality(candidates) <= topN THEN {candidates}
       ELSE {T \in SUBSET candidates :
               /\ Cardinality(T) = topN
               /\ ~noise => \A a \in T, b \in candidates \ T : ~better(b, a)}

\* chooseWasteWord: the words it can return; slice(0, 50) keeps the whole pool of the cut
chooseWasteWord(validGuesses, constraints, useCommonFilter) ==
    LET isCommon(w) == w \in Range(COMMON_WORDS)
        pool == IF useCommonFilter THEN SelectSeq(validGuesses, isCommon) ELSE validGuesses
        fitting == filterPossibleAnswers(pool, constraints)
    IN IF fitting = <<>> THEN Range(validGuesses) ELSE Range(fitting)

\* selectGuess: the words it can return, over the draws of Math.random()
selectGuess(difficulty, possibleAnswers, constraints, guessNumber) ==
    LET config == DIFFICULTIES(difficulty)
        allValidGuesses == getAllValidGuesses
        isCommon(w) == w \in Range(COMMON_WORDS)
        commonAnswers == SelectSeq(possibleAnswers, isCommon)
        filteredAnswers == IF config.useCommonFilter /\ commonAnswers # <<>>
                           THEN commonAnswers ELSE possibleAnswers
        early == guessNumber < config.minSolveGuess
        waste == chooseWasteWord(allValidGuesses, constraints, config.useCommonFilter)
        candidateSets == {Range(filteredAnswers) \cup S :
                             S \in SUBSET Range(allValidGuesses) \ {{}}}
        tops == UNION {getBestGuessesByEntropy(filteredAnswers, c, config.topN[1], config.noise) :
                          c \in candidateSets}
        fromTop(top) ==
            LET commonMatches == {w \in top : isCommon(w)}
            IN IF config.useCommonFilter /\ commonMatches # {} THEN commonMatches
               ELSE IF difficulty = "impossible" THEN top
               ELSE {w \in top : ~(early /\ w \in Range(filteredAnswers))}
                      \cup (IF config.wasteWordChance
                               \/ \E w \in top : early /\ w \in Range(filteredAnswers)
                            THEN waste ELSE {})
    IN IF guessNumber = 1 /\ constraints = <<>>
       THEN IF difficulty = "easy" THEN Range(COMMON_WORDS) ELSE Range(OPTIMAL_FIRST_GUESSES)
       ELSE IF Len(filteredAnswers) = 1
       THEN IF early THEN waste ELSE {filteredAnswers[1]}
       ELSE IF Len(filteredAnswers) = 2
       THEN IF early THEN waste ELSE Range(filteredAnswers)
       ELSE IF difficulty = "easy" \/ config.topN = <<>>
       THEN IF early THEN chooseWasteWord(allValidGuesses, constraints, TRUE)
            ELSE (IF filteredAnswers = <<>> THEN {Undefined} ELSE Range(filteredAnswers))
                    \cup chooseWasteWord(allValidGuesses, constraints, TRUE)
       ELSE UNION {fromTop(top) : top \in tops}

createBotInstance(difficulty, targetWord) ==
    [difficulty |-> difficulty, targetWord |-> targetWord,
     possibleAnswers |-> getAllAnswers, constraints |-> <<>>, guessCount |-> 0]

\* updateBotState that keeps possibleAnswers as it was
updateBotState_noFilter(botInstance, guess, pattern) ==
    LET constraints == Append(botInstance.constraints, [guess |-> guess, pattern |-> pattern])
    IN [botInstance EXCEPT !.constraints = constraints,
                           !.guessCount = @ + 1]

updateBotState(botInstance, guess, pattern) ==
    LET constraints == Append(botInstance.constraints, [guess |-> guess, pattern |-> pattern])
    IN [botInstance EXCEPT !.constraints = constraints,
                           !.guessCount = @ + 1,
                           !.possibleAnswers = filterPossibleAnswers(@, constraints)]

BotRuns == {createBotInstance(d, t) : d \in Difficulties, t \in Range(getAllAnswers)}

\* getNextGuess(botInstance): the guess of the next timer is chosen
GetNextGuess ==
    /\ pure[1].done
    /\ pure[1].result \in {"created", "updated"}
    /\ pure[1].args.guessCount < MAX_GUESSES
    /\ \E guess \in selectGuess(pure[1].args.difficulty, pure[1].args.possibleAnswers,
                                pure[1].args.constraints, pure[1].args.guessCount + 1) :
          pure' = <<[args |-> pure[1].args, done |-> FALSE, guess |-> guess]>>
    /\ UNCHANGED allButPure

\* the timer of triggerBotGuess: processGuess validates the guess, evaluates it against the
\* target, and on success the pattern updates the bot's state
BotGuessResult ==
    LET guess == pure[1].guess
        bot == pure[1].args
        error == IF Len(trim(toUpperCase(guess))) # 5 THEN "Guess must be 5 letters"
                 ELSE IF trim(toUpperCase(guess)) \notin Range(getAllValidGuesses)
                 THEN "Not a valid word"
                 ELSE NULL
        evaluation == evaluateGuess(guess, bot.targetWord)
        pattern == [i \in 1..5 |-> patternLetter(evaluation[i].color)]
    IN /\ ~pure[1].done
       /\ "guess" \in DOMAIN pure[1]
       /\ pure' = <<[args |-> IF error = NULL THEN updateBotState(bot, guess, pattern) ELSE bot,
                     done |-> TRUE,
                     guess |-> guess,
                     error |-> error,
                     result |-> IF error # NULL THEN "rejected"
                                ELSE IF isCorrectGuess(guess, bot.targetWord) THEN "solved"
                                ELSE "updated"]>>
       /\ UNCHANGED allButPure

InitSelect == InitApplied(BotRuns)

\* startGame: createBotInstance
BotCreated ==
    /\ ~pure[1].done
    /\ "guess" \notin DOMAIN pure[1]
    /\ pure' = <<[args |-> pure[1].args, done |-> TRUE, result |-> "created"]>>
    /\ UNCHANGED allButPure

NextSelect == BotCreated \/ GetNextGuess \/ BotGuessResult

SpecSelect == InitSelect /\ [][NextSelect]_vars

-----------------------------------------------------------------------------
(* the end of a match with the rating update taken statement by statement *)

MaxCommitOps == 2       \* guesses, bot timers and commits of other matches under SpecCommit

CommitGuesses == {CRANE, SLATE}

NextCommit ==
    \/ \E s \in PlayerSocketIds, raw \in CommitGuesses :
          GuessEvent(MaxCommitOps, s, GameId, raw)
    \/ \E pr \in Procs : AcquireWinLock(pr)
    \/ \E pr \in Procs : GetWinner(pr)
    \/ \E pr \in Procs : SetGameState(pr)
    \/ \E pr \in Procs : GetGame(pr)
    \/ TimerFire(MaxCommitOps)
    \/ \E raw \in BotGuesses : BotProcessGuess(raw)
    \/ \E pr \in Procs : TxStatement(pr)
    \/ \E pr \in Procs : TxCommit(pr)
    \/ \E pr \in Procs : TxFail(pr)
    \/ \E u \in Players, won \in BOOLEAN : OtherMatchCommit(MaxCommitOps, u, won)

\* ratings of P1 that meet each difficulty of createBotOpponent
CommitRatings == {800, 1000, 1200, 1600}

\* a new match of two humans or of a human and a bot
InitCommit == \E bot \in BOOLEAN, elo1 \in CommitRatings : InitMatch(bot, elo1, 0, 0)

SpecCommit == InitCommit /\ [][NextCommit]_vars

-----------------------------------------------------------------------------
(* EloService.calculateMatchResult applied on its own to ratings at and above the floor *)

RatingSpan == 40        \* the ratings from MIN_RATING to MIN_RATING + RatingSpan are tried

\* every rating up to RatingSpan above the floor, and ratings far above it
RatingInputs == MIN_RATING..(MIN_RATING + RatingSpan) \cup {500, 900}

\* the pairs of those ratings, and two players rated 1200
RatingPairs ==
    {[winnerRating |-> w, loserRating |-> l] : w \in RatingInputs, l \in RatingInputs}
        \cup {[winnerRating |-> 1200, loserRating |-> 1200]}

\* EloService.calculateMatchResult(winnerRating, loserRating)
CalculateMatchResult ==
    /\ ~pure[1].done
    /\ pure' = <<[args |-> pure[1].args,
                  done |-> TRUE,
                  result |-> calculateMatchResult(pure[1].args.winnerRating,
                                                  pure[1].args.loserRating)]>>
    /\ UNCHANGED allButPure

NextRating == CalculateMatchResult

SpecRating == InitApplied(RatingPairs) /\ [][NextRating]_vars

-----------------------------------------------------------------------------
(* The claims *)

\* C1: under any interleaving of the two players' processGuess calls the stored match records
\* at most one winner: once winner is a player id it is never afterwards a different player id.
C1_AtMostOneWinner == Cardinality(winners) <= 1


gameEnds == {i \in DOMAIN emitted : emitted[i].ev = "game:end"}

\* C2: every game:end of a completed match names the winner of the win claim: the holder of
\* the claim is told 'win', the other player 'loss', and nobody is told 'draw'.
C2_EndNamesClaimWinner ==
    \A i \in gameEnds :
        (emitted[i].reason = "complete" /\ winLock # <<>>) =>
            emitted[i].result = IF emitted[i].player = winLock[1].playerId THEN "win" ELSE "loss"

lockCalls == {i \in DOMAIN lockLog : lockLog[i] # Expired}
lockWins == {i \in lockCalls : lockLog[i].ok}

\* C3: of the N calls of acquireWinLock on one match exactly one returns true, and getWinner
\* then returns the player of that call.
C3_TrueExactlyOnce ==
    lockCalls # {} =>
        /\ Cardinality(lockWins) = 1
        /\ getWinner(winLock) # <<>>
        /\ \A i \in lockWins : getWinner(winLock)[1].playerId = lockLog[i].playerId

\* C3 as amended: a call returns true exactly when it is the first call or the first after
\* an expiry of the key, and while the key has not expired getWinner returns the player of
\* the latest call that returned true.
C3_TrueOncePerKeyLife ==
    /\ \A i \in lockCalls : lockLog[i].ok <=> (i = 1 \/ lockLog[i - 1] = Expired)
    /\ IF lockLog = <<>> \/ lockLog[Len(lockLog)] = Expired
       THEN getWinner(winLock) = <<>>
       ELSE /\ getWinner(winLock) # <<>>
            /\ \E i \in lockWins :
                 /\ \A j \in lockWins : j <= i
                 /\ getWinner(winLock)[1].playerId = lockLog[i].playerId

\* three calls by three users on a key that has not expired
C3_Witness ==
    /\ Len(lockLog) >= 3
    /\ \A i \in 1..3 : lockLog[i] # Expired
    /\ Cardinality({lockLog[i].playerId : i \in 1..3}) = 3

allGreen(rec) == \A i \in 1..5 : rec.evaluation[i].color = "green"
greens(game, p) == {k \in DOMAIN game.players[p].guesses : allGreen(game.players[p].guesses[k])}
someGreen(game) == \E p \in Players : greens(game, p) # {}
hasForfeit(game) == \E i \in DOMAIN game.replayLog : game.replayLog[i].type = "forfeit"
bothExhausted(game) == \A p \in Players : Len(game.players[p].guesses) = MAX_GUESSES

\* C4: the stored match holds at most one all-green guess record, and if it holds one it is
\* a guess of the player recorded as winner.
C4_GreenBelongsToWinner ==
    /\ Cardinality(greens(store, P1)) + Cardinality(greens(store, P2)) <= 1
    /\ \A p \in Players : greens(store, p) # {} => store.winner = p

\* C5: the stored match is FINISHED exactly when it holds an all-green guess, or six guesses
\* of each player, or a forfeit event; a FINISHED match with no all-green guess and no forfeit
\* event holds exactly six guesses of each player and no winner.
C5_FinishedIff ==
    /\ store.status = FINISHED <=>
           (someGreen(store) \/ bothExhausted(store) \/ hasForfeit(store))
    /\ (store.status = FINISHED /\ ~someGreen(store) /\ ~hasForfeit(store)) =>
           (bothExhausted(store) /\ store.winner = NULL)

savedCorrect(pr) == h[pr].pc = "getGame" /\ h[pr].isCorrect
inLog(game, playerId, rec) ==
    \E i \in DOMAIN game.replayLog :
        game.replayLog[i] = [playerId |-> playerId, type |-> "guess", data |-> rec]
inGuesses(game, playerId, rec) ==
    \E k \in DOMAIN game.players[playerId].guesses : game.players[playerId].guesses[k] = rec

\* C6: when the correct guesses of both players were processed from a load of the ACTIVE
\* match, the stored match holds both guesses after both calls, each in its player's list and
\* in the replay log, and its winner is the holder of the win claim.
C6_BothGuessesStored ==
    \A a, b \in Procs :
        (a # b /\ savedCorrect(a) /\ savedCorrect(b)) =>
            /\ \A pr \in {a, b} : /\ inGuesses(store, h[pr].playerId, h[pr].rec)
                                  /\ inLog(store, h[pr].playerId, h[pr].rec)
            /\ winLock # <<>> /\ store.winner = winLock[1].playerId

\* C8: no accepted guess is lost: the stored list of each player holds as many records as
\* that player's processGuess calls that returned success, and its k-th record has guessNumber k.
C8_NoGuessLost ==
    \A p \in Players :
        /\ Len(store.players[p].guesses) = oks[p]
        /\ \A k \in DOMAIN store.players[p].guesses : store.players[p].guesses[k].guessNumber = k

isDraw(game) == game.status = FINISHED /\ game.winner = NULL /\ bothExhausted(game)
humans(game) == {p \in Players : ~game.players[p].isBot}

\* C9: when the match finished as a draw every game:end says 'draw' with eloChange 0 and no
\* player's stored rating differs from the rating the match started with.
C9_DrawChangesNothing ==
    isDraw(store) =>
        /\ \A i \in gameEnds : emitted[i].result = "draw" /\ emitted[i].eloChange = Num(0)
        /\ \A p \in humans(store) : userElo[p] = store.players[p].elo

\* the guess the claim calls acceptable, for the match the call loaded
acceptable(found, playerId, raw) ==
    /\ found # <<>>
    /\ found[1].status = ACTIVE
    /\ playerId \in DOMAIN found[1].players
    /\ Len(found[1].players[playerId].guesses) < 6
    /\ Len(trim(toUpperCase(raw))) = 5
    /\ trim(toUpperCase(raw)) \in ValidGuesses

accepted(s, found, playerId, raw) ==
    /\ h'[s].pc \in {"acquireWinLock", "setGameState"}
    /\ h'[s].rec.word = trim(toUpperCase(raw))
    /\ h'[s].game.players[playerId].guesses =
           Append(found[1].players[playerId].guesses, h'[s].rec)
    /\ h'[s].game.replayLog =
           Append(found[1].replayLog,
                  [playerId |-> playerId, type |-> "guess", data |-> h'[s].rec])
    /\ \A q \in DOMAIN found[1].players \ {playerId} :
           h'[s].game.players[q] = found[1].players[q]
    /\ store' = store

rejected(s) ==
    /\ store' = store
    /\ h' = h
    /\ Len(emitted') = 1
    /\ emitted'[1].to = s
    /\ emitted'[1].ev = "game:guess:invalid"

saved(s) ==
    /\ store'.players = h[s].game.players
    /\ store'.replayLog = h[s].game.replayLog
    /\ Len(emitted') = 1
    /\ emitted'[1].to = s
    /\ emitted'[1].ev = "game:guess:result"
    /\ emitted'[1].word = h[s].rec.word

\* C7: processGuess accepts a guess, appending one record to the player's list and to the
\* replay log of the match it loaded and writing that match, exactly when the match is ACTIVE,
\* the player is one of its players with fewer than six guesses and the trimmed upper-cased
\* word has five letters and is a valid guess; otherwise nothing is written and only the
\* submitting socket is sent game:guess:invalid.
C7_AcceptsExactlyValid ==
    [][/\ \A s \in Sockets, gameId \in GameIds, raw \in RawGuesses \ {<<>>} :
              GuessEvent(MaxInputOps, s, gameId, raw) =>
                  IF acceptable(getGame(gameId), socketPlayers[s], raw)
                  THEN accepted(s, getGame(gameId), socketPlayers[s], raw)
                  ELSE rejected(s)
       /\ \A s \in Sockets : SetGameState(s) => saved(s)]_vars

\* a guess of a player who has used all six guesses was rejected
C7_Witness ==
    /\ Len(emitted) = 1
    /\ emitted[1].ev = "game:guess:invalid"
    /\ emitted[1].error = "No guesses remaining"

forfeitIgnored == store' = store /\ h' = h /\ emitted' = <<>> /\ userElo' = userElo

forfeitWritten(s) ==
    LET P == h[s].playerId
        before == h[s].loaded
        n == Len(before.replayLog)
    IN /\ before.status = ACTIVE
       /\ store'.status = FINISHED
       /\ store'.winner \in Players \ {P}
       /\ store'.endTime # NoTime
       /\ Len(store'.replayLog) = n + 1
       /\ SubSeq(store'.replayLog, 1, n) = before.replayLog
       /\ store'.replayLog[n + 1].type = "forfeit"
       /\ store'.replayLog[n + 1].playerId = P
       /\ \A q \in Players : store'.players[q] = before.players[q]

\* C10: a forfeit by player P writes the ACTIVE match it loaded with status FINISHED, winner
\* P's opponent, an endTime, one forfeit record of P appended to the replay log and both
\* guess lists as loaded; a forfeit that finds no match or a match that is not ACTIVE writes
\* nothing and emits nothing.
C10_ForfeitEffects ==
    [][/\ \A s \in Sockets, gameId \in GameIds :
              ForfeitEvent(MaxInputOps, s, gameId) =>
                  IF getGame(gameId) = <<>> \/ getGame(gameId)[1].status # ACTIVE
                  THEN forfeitIgnored
                  ELSE h'[s].pc = "forfeitSave" /\ h'[s].loaded = getGame(gameId)[1]
       /\ \A s \in Sockets :
              (ForfeitSave(s) /\ h[s].playerId \in Players) => forfeitWritten(s)]_vars

\* the forfeit of a player was written and both players were told
C10_Witness ==
    /\ store.status = FINISHED
    /\ hasForfeit(store)
    /\ \E i \in gameEnds : emitted[i].reason = "forfeit" /\ emitted[i].result = "win"
    /\ \E i \in gameEnds : emitted[i].reason = "forfeit" /\ emitted[i].result = "loss"

graceForfeits == {s \in Sockets : grace[s].pc = "forfeited"}

\* C11: the grace timer of a disconnect does not forfeit the match when the player sent
\* game:rejoin for it after the disconnect and before the timer fired and is connected to the
\* match when the timer fires, and a match against a bot is never forfeited by a disconnect.
C11_RejoinKeepsMatch ==
    /\ \A s \in graceForfeits : ~(grace[s].rejoined /\ grace[s].handle)
    /\ isBotGame(store) => ~hasForfeit(store)

handlesOf(playerId) == {b \in Sockets : conn[b].state = "open" /\ conn[b].userData = playerId}

disconnecting(playerId) ==
    \E b \in Sockets : grace[b].pc = "cancelMatchmaking" /\ grace[b].playerId = playerId

\* C12: once the disconnect handlers of a player's dropped handles have run, a player who
\* still has a connected handle is mapped by the registry to one of the player's connected
\* handles, and no grace timer forfeits a match in which the player has a connected handle
\* when it fires.
C12_OtherHandleKept ==
    /\ \A p \in Players :
          (handlesOf(p) # {} /\ ~disconnecting(p)) => playerSockets[p] \in handlesOf(p)
    /\ \A s \in graceForfeits : ~grace[s].handle

Colors == {"green", "yellow", "grey"}

sameColors(r) ==
    \A k \in DOMAIN r.a[1].guesses : colorsOf(r.a[1].guesses[k]) = colorsOf(r.b[1].guesses[k])

onlyColors(run) ==
    /\ DOMAIN run.event = {"to", "ev", "colors", "guessNumber"}
    /\ run.event.colors \in [1..5 -> Colors]
    /\ run.event.guessNumber = Len(run.guesses)
    /\ \A k \in DOMAIN run.opponentProgress :
          /\ DOMAIN run.opponentProgress[k] = {"colors", "guessNumber"}
          /\ run.opponentProgress[k].colors \in [1..5 -> Colors]
          /\ run.opponentProgress[k].guessNumber = k

\* C13: two runs in which a player's accepted guesses have the same colour patterns give the
\* opponent the same game:opponent:guess payload and the same opponentProgress in
\* game:rejoined, and these hold colours and guess numbers only, no word and no letter.
C13_MaskedIndependent ==
    (Len(pure) = 1 /\ pure[1].a # <<>>) =>
        /\ sameColors(pure[1]) =>
              /\ pure[1].a[1].event = pure[1].b[1].event
              /\ pure[1].a[1].opponentProgress = pure[1].b[1].opponentProgress
        /\ onlyColors(pure[1].a[1])
        /\ onlyColors(pure[1].b[1])

C13_Witness ==
    /\ Len(pure) = 1
    /\ pure[1].a # <<>>
    /\ Len(pure[1].a[1].guesses) = 2
    /\ sameColors(pure[1])
    /\ \A k \in 1..2 : pure[1].a[1].guesses[k].word # pure[1].b[1].guesses[k].word

rejoinable(gameId, playerId) ==
    /\ gameId = GameId
    /\ store.status = ACTIVE
    /\ playerId \in {store.players[p].id : p \in DOMAIN store.players}

ownWords(playerId) ==
    [k \in DOMAIN store.players[playerId].guesses |->
        [word |-> store.players[playerId].guesses[k].word,
         colors |-> [i \in 1..5 |-> store.players[playerId].guesses[k].evaluation[i].color],
         guessNumber |-> k]]

opponentColors(playerId) ==
    [k \in DOMAIN store.players[OpponentId(playerId)].guesses |->
        [colors |-> [i \in 1..5 |->
                       store.players[OpponentId(playerId)].guesses[k].evaluation[i].color],
         guessNumber |-> k]]

rejoinAnswered(s) ==
    /\ Len(emitted') = 1
    /\ emitted'[1].to = s
    /\ IF rejoinable(h[s].gameId, h[s].playerId)
       THEN /\ emitted'[1].ev = "game:rejoined"
            /\ emitted'[1].gameId = h[s].gameId
            /\ emitted'[1].guesses = ownWords(h[s].playerId)
            /\ emitted'[1].opponentProgress = opponentColors(h[s].playerId)
            /\ conn'[s].gameId = h[s].gameId
       ELSE /\ emitted'[1].ev = "game:notfound"
            /\ conn'[s].gameId = conn[s].gameId
            /\ playerSockets' = playerSockets
            /\ socketPlayers' = socketPlayers
    /\ store' = store

\* C14: the reply to game:rejoin is game:rejoined exactly when the match exists, is active
\* and has the sender as a player, and then it holds the sender's guesses with their words
\* and the opponent's guesses as colours and guess number and the socket gets the match;
\* otherwise, and when the sender has not registered, the reply is game:notfound and the
\* socket and the registry stay as they were. The stored match is unchanged in both cases.
C14_RejoinReply ==
    [][\A s \in Sockets :
          /\ RejoinReply(s) => rejoinAnswered(s)
          /\ \A gameId \in GameIds :
                (Rejoin(MaxRejoinOps, s, gameId) /\ conn[s].userData = NULL) =>
                    /\ emitted' = <<[to |-> s, ev |-> "game:notfound"]>>
                    /\ conn' = conn
                    /\ store' = store]_vars

rejoinReplies(ev) == \E i \in DOMAIN emitted : emitted[i].ev = ev

C14_Witness ==
    /\ rejoinReplies("game:rejoined")
    /\ Len(store.players[P1].guesses) > 0
    /\ Len(store.players[P2].guesses) > 0

C14_WitnessNotFound ==
    /\ rejoinReplies("game:notfound")
    /\ store.status = FINISHED

pairings == {i \in DOMAIN started : ~started[i].isBot}

\* C15: when a match is created for a pairing, neither player has an entry in the queue,
\* and neither player had already been paired in the search the pairing comes from: one
\* match is created for a pairing and no other match pairs either player.
C15_OneMatchPerPairing ==
    \A i \in pairings :
        /\ started[i].player1 \notin started[i].queued
        /\ started[i].player2.playerId \notin started[i].queued
        /\ started[i].phase1 # "paired"
        /\ started[i].phase2 # "paired"

ended == {"cancelled", "bot", "paired"}

\* C16: a callback of a search (onMatchFound, onBotSpawn) starts a game only while the
\* search goes on: not after the player cancelled it, was given a bot, or was paired, by
\* the player's own attempt or by another player's; and the opponent it is given is a
\* player whose search goes on.
C16_NoCallbackAfterEnd ==
    \A i \in DOMAIN started :
        /\ started[i].phase1 \notin ended
        /\ ~started[i].isBot => started[i].phase2 \notin ended

botSpawns == {i \in DOMAIN started : started[i].isBot}

botFor(r) ==
    IF r < 900 THEN [difficulty |-> "easy", elo |-> 800]
    ELSE IF r < 1200 THEN [difficulty |-> "medium", elo |-> 1100]
    ELSE IF r < 1500 THEN [difficulty |-> "hard", elo |-> 1400]
    ELSE [difficulty |-> "impossible", elo |-> 1800]

\* C17: a search that is not paired is given a bot once, not before the wait budget has
\* passed; the player then has no entry in the queue, and the bot has the difficulty and
\* the rating that belong to the player's rating.
C17_OneBotSpawn ==
    /\ \A i \in botSpawns :
          /\ started[i].phase1 = "searching"
          /\ started[i].player1 \notin started[i].queued
          /\ started[i].player2.botDifficulty = botFor(started[i].elo).difficulty
          /\ started[i].player2.elo = botFor(started[i].elo).elo
          /\ time >= MATCHMAKING_TIMEOUT
    /\ \A u \in Users : phase[u] = "bot" => \A e \in queue : e.playerId # u

\* C18: an attempt of a search that has lasted t ms uses the band 100 + min(300, 300 t / 15000),
\* which is 100 at t = 0, lies between 100 and 400 and is not below the band of an earlier
\* attempt; the opponent it returns is an entry of the queue of another player whose rating
\* differs from the searcher's by at most the band. (Bands are multiplied by 15000.)
C18_Band ==
    pure # <<>> =>
        /\ pure[1].range = 100 * 15000 + Min(300 * 15000, 300 * pure[1].elapsed)
        /\ pure[1].elapsed = 0 => pure[1].range = 100 * 15000
        /\ pure[1].range >= 100 * 15000
        /\ pure[1].range <= 400 * 15000
        /\ pure[1].range >= pure[1].earlier
        /\ pure[1].match # <<>> =>
              /\ pure[1].match[1] \in pure[1].queue
              /\ pure[1].match[1].playerId # P1
              /\ Abs(pure[1].match[1].elo - MatchElo[P1]) * 15000 <= pure[1].range

C18_Witness ==
    /\ pure # <<>>
    /\ pure[1].elapsed > 15000
    /\ pure[1].earlier < pure[1].range
    /\ pure[1].match # <<>>
    /\ Abs(pure[1].match[1].elo - MatchElo[P1]) = 400

\* C19: once a connection has disconnected and its disconnect handler has run, the queue
\* holds no entry of that connection, no match is started with such an entry as the
\* opponent, and no game is started for that connection by a timer of its search.
C19_NoVanishedEntry ==
    /\ \A e \in queue : e.socketId \notin vanished
    /\ \A i \in DOMAIN started :
          /\ started[i].socket \notin started[i].vanished
          /\ ~started[i].isBot => started[i].player2.socketId \notin started[i].vanished

unauthenticated == {s \in Sockets : conn[s].state # "fresh" /\ conn[s].user = NULL}

\* C20: a connection whose handshake carried no token has no entry in the queue, has no
\* game started for it, and has no guess in processGuess.
C20_UnauthenticatedBarred ==
    /\ \A e \in queue : e.socketId \notin unauthenticated
    /\ \A i \in DOMAIN started : started[i].socket \notin unauthenticated
    /\ \A s \in unauthenticated : h[s].pc = "idle"

countIn(L, w) == Cardinality({i \in 1..Len(w) : w[i] = L})
marked(result, L) ==
    Cardinality({i \in 1..Len(result) :
                    result[i].letter = L /\ result[i].color \in {"green", "yellow"}})

\* C21: evaluateGuess returns five entries, and for every letter L the number of positions of
\* the guess that hold L and are marked green or yellow is
\* min(count of L in the guess, count of L in the target).
C21_MarkedCount ==
    pure[1].done =>
        /\ Len(pure[1].result) = 5
        /\ \A i \in 1..5 : pure[1].result[i].letter = pure[1].args.guess[i]
        /\ \A L \in Alphabet :
              marked(pure[1].result, L)
                  = Min(countIn(L, pure[1].args.guess), countIn(L, pure[1].args.target))

\* a guess with a letter three times, the target with the same letter twice, one of them in place
C21_Witness ==
    /\ pure[1].done
    /\ \E L \in Alphabet :
          /\ countIn(L, pure[1].args.guess) = 3
          /\ countIn(L, pure[1].args.target) = 2
          /\ Cardinality({i \in 1..5 : pure[1].args.guess[i] = L
                                        /\ pure[1].args.target[i] = L}) = 1
          /\ \E i \in 1..5 : pure[1].result[i].letter = L /\ pure[1].result[i].color = "grey"
          /\ \E i \in 1..5 : pure[1].result[i].letter = L /\ pure[1].result[i].color = "yellow"

\* the two-pass rule, stated position by position: a position is green iff guess and target
\* agree there; another position is yellow iff the target holds its letter at more non-green
\* positions than the guess holds it at non-green positions to the left
referenceColor(g, t, i) ==
    IF g[i] = t[i] THEN "green"
    ELSE IF Cardinality({j \in 1..5 : g[j] # t[j] /\ t[j] = g[i]})
              > Cardinality({k \in 1..(i - 1) : g[k] # t[k] /\ g[k] = g[i]})
         THEN "yellow"
         ELSE "grey"

colorsOfResult(result) == [i \in 1..Len(result) |-> result[i].color]

C23_BotGuessValid ==
    "guess" \in DOMAIN pure[1] =>
        /\ Len(pure[1].guess) = 5
        /\ pure[1].guess \in Range(getAllValidGuesses)
        /\ pure[1].done => pure[1].error = NULL

botMatchStart ==
    /\ isBotGame(store)
    /\ store.status = ACTIVE
    /\ activeGames
    /\ \A p \in DOMAIN store.players : store.players[p].guesses = <<>>
    /\ ops = 0

humanGuessGoesOn(s) ==
    /\ isBotGame(store)
    /\ store.status = ACTIVE
    /\ activeGames
    /\ h[s].pc = "getGame"
    /\ h[s].kind = "guess"
    /\ ~h[s].gameEnded
    /\ h'[s].pc = "idle"

\* C24: at the start of a match with a bot a timer of the bot's guess is pending, so that the
\* bot guesses even if the human never does; and the handler of a human guess that leaves the
\* match ACTIVE schedules a timer.
C24_BotTimerScheduled ==
    [][/\ botMatchStart => timers > 0
       /\ \A s \in Sockets : humanGuessGoesOn(s) => timers' = timers + 1]_vars

finishedBefore == isBotGame(store) /\ winners # {}

\* C25: once a match with a bot has been FINISHED, a timer of the bot that fires returns at
\* its check of the match, and no guess of the bot is accepted, stored or announced after it.
C25_NoBotGuessAfterEnd ==
    [][finishedBefore =>
          /\ timers' < timers => h'[BotProc].pc = "idle"
          /\ h[BotProc].pc = "processGuess" => h'[BotProc].pc \in {"idle", "processGuess"}]_vars

-----------------------------------------------------------------------------
(* The rating commit *)

\* the matches rows that name the user, in order
rowsNaming(u) == SelectSeq(db.matches, LAMBDA row : u \in {row.winnerId, row.loserId})

\* the rating the rows leave the user with: the one of the last row that names the user, and
\* the rating at the start when no row does
ratingByRows(u) ==
    LET rows == rowsNaming(u)
        last == rows[Len(rows)]
    IN IF rows = <<>> THEN IF u \in Players THEN store.players[u].elo ELSE 1200
       ELSE IF last.winnerId = u THEN last.winnerEloAfter ELSE last.loserEloAfter

wonRows(u) == Len(SelectSeq(db.matches, LAMBDA row : row.winnerId = u))
lostRows(u) == Len(SelectSeq(db.matches, LAMBDA row : row.loserId = u))

\* C26: the rating commit is all-or-nothing. In every reachable state of the persistent store,
\* whatever statement of a transaction has failed, each matches row stands with both
\* users' updates and each update with its row: the wins, losses and gamesPlayed of a user
\* count the rows that name the user, and the user's elo is the one its last row records.
C26_CommitAllOrNothing ==
    \A u \in Users :
        /\ db.users[u].wins = wonRows(u)
        /\ db.users[u].losses = lostRows(u)
        /\ db.users[u].gamesPlayed = wonRows(u) + lostRows(u)
        /\ userElo[u] = ratingByRows(u)

\* a match of two humans has a winner, the transaction of its rating update has failed and
\* the store holds none of its statements
C26_Witness ==
    /\ ~isBotGame(store)
    /\ store.winner \in Players
    /\ db = NoRows
    /\ \E pr \in Procs : h[pr].pc = "idle"
    /\ \E i \in DOMAIN emitted : emitted[i].ev = "game:end" /\ emitted[i].eloChange = Num(0)

\* the step in which the rating update for a finished match fails: the handler leaves it and
\* the store keeps the rows it had
ratingUpdateFails(pr) ==
    /\ h[pr].pc \in {"elo", "tx"}
    /\ h[pr].game.status = FINISHED
    /\ eloCall(h[pr].game) # "none"
    /\ h'[pr].pc = "idle"
    /\ db' = db

\* the game:end events of the step that go to the socket
endEventsTo(s) == {i \in DOMAIN emitted' : emitted'[i].to = s /\ emitted'[i].ev = "game:end"}

\* C27: when the rating transaction of a FINISHED match fails, every socket of every human
\* player of the match receives game:end in that step, with eloChange 0 and newElo the rating
\* the match holds for the player since its creation.
C27_EndEventOnFailure ==
    [][\A pr \in Procs : ratingUpdateFails(pr) =>
          LET game == h[pr].game
          IN \A p \in DOMAIN game.players :
                 ~game.players[p].isBot =>
                     \A s \in Sockets :
                         socketPlayers[s] = p =>
                             /\ endEventsTo(s) # {}
                             /\ \A i \in endEventsTo(s) :
                                   /\ emitted'[i].eloChange = Num(0)
                                   /\ emitted'[i].newElo = Num(game.players[p].elo)]_vars

\* the transaction of a match of two humans has failed and both have game:end with no change
C27_Witness ==
    /\ ~isBotGame(store)
    /\ store.status = FINISHED
    /\ ~activeGames
    /\ db.matches = <<>>
    /\ \A p \in Players :
          \E i \in DOMAIN emitted :
              /\ emitted[i].ev = "game:end"
              /\ emitted[i].player = p
              /\ emitted[i].result \in {"win", "loss"}
              /\ emitted[i].newElo = Num(store.players[p].elo)

\* the step in which the handler's rating update of a bot match commits
botMatchCommits(pr) ==
    /\ h[pr].pc \in {"elo", "tx"}
    /\ isBotGame(h[pr].game)
    /\ h'[pr].pc = "idle"
    /\ Len(db'.matches) = Len(db.matches) + 1

\* C28: the commit of a human-vs-bot match changes the users row of the human only; the new
\* rating is the one computed with K = 16 against the bot rating of the table easy 800,
\* medium 1100, hard 1400, impossible 1800, which is the rating createBotOpponent gave the
\* bot; the matches row has isBotMatch true and the difficulty, and on the bot's side a
\* null id and the same rating before and after.
C28_BotMatchCommit ==
    [][\A pr \in Procs : botMatchCommits(pr) =>
          LET game == h[pr].game
              human == humanOf(game)
              difficulty == game.players[botOf(game)].botDifficulty
              won == game.winner = human
              rating == game.players[human].elo
              table == CASE difficulty = "easy" -> 800
                         [] difficulty = "medium" -> 1100
                         [] difficulty = "hard" -> 1400
                         [] difficulty = "impossible" -> 1800
              row == db'.matches[Len(db'.matches)]
          IN /\ \A u \in Users \ {human} : userElo'[u] = userElo[u] /\ db'.users[u] = db.users[u]
             /\ createBotOpponent(rating).elo = table
             /\ createBotOpponent(rating).botDifficulty = difficulty
             /\ userElo'[human] =
                    calculateNewRating(rating, calculateExpectedScore(rating, table),
                                       IF won THEN 1 ELSE 0, 16)
             /\ row.isBotMatch
             /\ row.botDifficulty = difficulty
             /\ IF won
                THEN /\ row.winnerId = human
                     /\ row.loserId = NULL
                     /\ row.loserEloBefore = table
                     /\ row.loserEloAfter = table
                ELSE /\ row.loserId = human
                     /\ row.winnerId = NULL
                     /\ row.winnerEloBefore = table
                     /\ row.winnerEloAfter = table]_vars

\* the bot has won a match and its row is in the store: the human's rating has gone down
C28_Witness ==
    /\ isBotGame(store)
    /\ store.winner = botOf(store)
    /\ Len(db.matches) = 1
    /\ db.matches[1].isBotMatch
    /\ db.matches[1].winnerId = NULL
    /\ userElo[humanOf(store)] < store.players[humanOf(store)].elo

\* the step in which the handler's rating update of its match commits
matchCommits(pr) ==
    /\ h[pr].pc \in {"elo", "tx"}
    /\ h'[pr].pc = "idle"
    /\ Len(db'.matches) = Len(db.matches) + 1

\* the rating the row records for the user, before or after the match
ratingInRow(row, u, when) ==
    IF row.winnerId = u
    THEN IF when = "before" THEN row.winnerEloBefore ELSE row.winnerEloAfter
    ELSE IF when = "before" THEN row.loserEloBefore ELSE row.loserEloAfter

\* C29: the ratings a commit writes for a match are those computed from the two ratings in
\* the match's player slots and from the outcome, whatever the users rows hold at the time
\* of the commit (another match of a player may have committed in between).
C29_RatingsFromSlots ==
    [][\A pr \in Procs : matchCommits(pr) =>
          LET game == h[pr].game
              row == db'.matches[Len(db'.matches)]
          IN IF isBotGame(game)
             THEN LET human == humanOf(game)
                      rated == botMatchRating(game.players[human].elo, game.winner = human,
                                              game.players[botOf(game)].botDifficulty)
                  IN /\ userElo'[human] = rated.newRating
                     /\ ratingInRow(row, human, "before") = game.players[human].elo
                     /\ ratingInRow(row, human, "after") = rated.newRating
             ELSE LET winner == game.winner
                      loser == OpponentId(winner)
                      rated == calculateMatchResult(game.players[winner].elo,
                                                    game.players[loser].elo)
                  IN /\ userElo'[winner] = rated.winner.newRating
                     /\ userElo'[loser] = rated.loser.newRating
                     /\ row.winnerEloBefore = game.players[winner].elo
                     /\ row.loserEloBefore = game.players[loser].elo
                     /\ row.winnerEloAfter = rated.winner.newRating
                     /\ row.loserEloAfter = rated.loser.newRating]_vars

\* another match of a player committed first and changed the player's rating; the row of
\* this match still starts from the rating of the player's slot
C29_Witness ==
    /\ Len(db.matches) = 2
    /\ P3 \in {db.matches[1].winnerId, db.matches[1].loserId}
    /\ P3 \notin {db.matches[2].winnerId, db.matches[2].loserId}
    /\ \E u \in Players :
          /\ u \in {db.matches[1].winnerId, db.matches[1].loserId}
          /\ u \in {db.matches[2].winnerId, db.matches[2].loserId}
          /\ ratingInRow(db.matches[2], u, "before") = store.players[u].elo
          /\ ratingInRow(db.matches[2], u, "before") # ratingInRow(db.matches[1], u, "after")

-----------------------------------------------------------------------------
(* The rating round trip *)

\* what the two new ratings add up to, less what the two old ratings added up to
sumChange ==
    (pure[1].result.winner.newRating + pure[1].result.loser.newRating)
        - (pure[1].args.winnerRating + pure[1].args.loserRating)

\* C30 as stated: for every pair of ratings of at least 100, the floor included, the sum of the
\* new ratings is within 2 of the sum of the old ones.
C30_SumWithinTwo ==
    pure[1].done => sumChange \in -2..2

\* C30, amended: the sum of the new ratings is within 2 of the sum of the old ones whenever
\* the loser's new rating is above the floor of 100; when the loser's new rating is the
\* floor, the loser's loss is cut short and the winner's gain is not, and the sum changes
\* by -2 at the least and by K_FACTOR at the most.
C30_SumWithinTwoAboveFloor ==
    pure[1].done =>
        IF pure[1].result.loser.newRating > MIN_RATING
        THEN sumChange \in -2..2
        ELSE sumChange \in -2..K_FACTOR

\* a loser within 20 of the floor who stays above it
C30_Witness ==
    /\ pure[1].done
    /\ pure[1].args.loserRating <= MIN_RATING + 20
    /\ pure[1].result.loser.newRating > MIN_RATING
    /\ pure[1].result.loser.newRating < pure[1].args.loserRating

\* r + K * (S - E) in millionths, for the winner (S = 1) or the loser (S = 0) of the pair
exactRating(r, opponent, S) ==
    r * 1000000 + K_FACTOR * (S * 1000000 - calculateExpectedScore(r, opponent))

\* n is x rounded: the integer nearest to x, the upper one of two
isRounded(n, x) == n * 1000000 - 500000 <= x /\ x < n * 1000000 + 500000

-----------------------------------------------------------------------------
(* The end of a match, once written *)

\* C32: once the stored match is FINISHED, no step makes it ACTIVE again or changes its
\* winner or its endTime, whatever the order of the reads and writes of the guesses and
\* forfeits in flight.
C32_FinishedIsFinal ==
    [][store.status = FINISHED =>
          /\ store'.status = FINISHED
          /\ store'.winner = store.winner
          /\ store'.endTime = store.endTime]_vars

\* the game:end events of the step that name the player
endEventsFor(p) == {i \in DOMAIN emitted' : emitted'[i].ev = "game:end" /\ emitted'[i].player = p}

\* C33: the rating update of a match is committed at most once and each human player is
\* sent game:end at most once, also when two handlers see the match end: no step writes a
\* second row for the match, and once the row is written, with which both players were
\* sent game:end, no step sends a player game:end again.
C33_OneCommitOneEnd ==
    [][/\ Len(db'.matches) <= 1
       /\ Len(db.matches) >= 1 => \A p \in Players : endEventsFor(p) = {}]_vars

\* C34: a game:forfeit from a user who is not a player of the match changes nothing: the step
\* that ends its handler leaves the stored match as it was and sends no game:end.
C34_ForfeitByStranger ==
    [][\A s \in Sockets :
          (/\ h[s].pc = "forfeitSave"
           /\ h[s].playerId \notin DOMAIN h[s].loaded.players
           /\ h'[s].pc = "idle")
          => /\ store' = store
             /\ \A i \in DOMAIN emitted' : emitted'[i].ev # "game:end"]_vars

-----------------------------------------------------------------------------
(* The target word *)

\* C35: the target word goes to a client in game:end only and never while the stored match
\* is ACTIVE, and once handleGameEnd has sent game:end with the target word no guess is
\* accepted for the match any more.
C35_TargetOnlyAtEnd ==
    [][/\ \A i \in DOMAIN emitted' :
             "targetWord" \in DOMAIN emitted'[i] =>
                 /\ emitted'[i].ev = "game:end"
                 /\ store'.status # ACTIVE
       /\ ~activeGames => oks' = oks]_vars

-----------------------------------------------------------------------------
(* The bot's timers *)

\* C36: at most one timer of triggerBotGuess is pending for the match at any time.
C36_OneBotTimer ==
    isBotGame(store) => timers <= 1

\* C37: a tick of the bot does not end the chain of its guesses while the match is not
\* decided and the bot has fewer than six guesses: after every tick that has not solved
\* the word and has left the bot below six guesses, the next guess is chosen and a timer
\* set for it (the result of the tick is one from which getNextGuess goes on).
C37_BotChainGoesOn ==
    (/\ pure[1].done
     /\ pure[1].result # "solved"
     /\ pure[1].args.guessCount < MAX_GUESSES)
    => pure[1].result \in {"created", "updated"}

-----------------------------------------------------------------------------
(* The bot's guesses *)

\* C38: the word selectGuess chooses for a guess number below the difficulty's
\* minSolveGuess (easy 4, medium 3, hard 2, impossible 1) is not the target, whether it is
\* the first guess, a waste word or any other choice.
C38_NoEarlySolve ==
    (/\ "guess" \in DOMAIN pure[1]
     /\ ~pure[1].done
     /\ pure[1].args.guessCount + 1 < DIFFICULTIES(pure[1].args.difficulty).minSolveGuess)
    => pure[1].guess # pure[1].args.targetWord

\* the pattern of the guess against the word by the evaluation rule, letter by letter
evaluatedPattern(guess, word) ==
    LET evaluation == evaluateGuess(guess, word)
    IN [i \in 1..5 |-> CASE evaluation[i].color = "green" -> "G"
                         [] evaluation[i].color = "yellow" -> "Y"
                         [] OTHER -> "X"]

\* C39: after every updateBotState with the pattern of the guess against the target T of the
\* answer list, possibleAnswers holds T, holds nothing it did not hold before, holds only
\* words that give every recorded pattern against the recorded guess, and guessCount is
\* the number of constraints.
C39_BotStateKept ==
    [][LET bot == pure'[1].args
       IN /\ bot.targetWord \in Range(bot.possibleAnswers)
          /\ Range(bot.possibleAnswers) \subseteq Range(pure[1].args.possibleAnswers)
          /\ \A w \in Range(bot.possibleAnswers) :
                \A k \in DOMAIN bot.constraints :
                    evaluatedPattern(bot.constraints[k].guess, w) = bot.constraints[k].pattern
          /\ bot.guessCount = Len(bot.constraints)]_vars

\* two guesses are recorded and have left fewer answers than the list holds
C39_Witness ==
    /\ pure[1].done
    /\ pure[1].result = "updated"
    /\ pure[1].args.guessCount = 2
    /\ Len(pure[1].args.possibleAnswers) < Len(getAllAnswers)

\* C40: for upper-case words, getPattern(guess, target) is the evaluation of the guess
\* against the target with green as G, yellow as Y and grey as X, which is the pattern
\* the timer of the bot makes of the evaluation of a recorded guess.
C40_PatternIsEvaluation ==
    "pattern" \in DOMAIN pure[1] =>
        pure[1].pattern = [i \in 1..5 |-> patternLetter(pure[1].result[i].color)]

\* a guess with a letter twice and a target with it once, elsewhere: one Y and one X
C40_Witness ==
    /\ "pattern" \in DOMAIN pure[1]
    /\ \E i, j \in 1..5 :
          /\ i < j
          /\ pure[1].args.guess[i] = pure[1].args.guess[j]
          /\ pure[1].pattern[i] = "Y"
          /\ pure[1].pattern[j] = "X"

=============================================================================
